---- MODULE Spec2Model ----
(***************************************************************************)
(* A model of the SteamPermaLink bot (src/index.ts): the regular           *)
(* expressions it shares between calls, the identity resolver, the two     *)
(* record stores with their backing files, the per-guild setting and the   *)
(* anti-spam guard of the automatic reply.                                 *)
(*                                                                         *)
(* Texts are sequences of one-character strings, so that the positions     *)
(* the patterns' lastIndex cursors hold are the positions of the source.   *)
(* A value the source names with const and reads several times is the      *)
(* parameter of an operator here, named after what is done with it.        *)
(***************************************************************************)
EXTENDS Integers, Sequences, FiniteSets, TLC

\* ------------------------------------------------------------------ CONFIG
USER_COOLDOWN_MS == 8000
MESSAGE_REPLY_TTL_MS == 3600000

\* ------------------------------------------------------------- characters
Digits == {"0", "1", "2", "3", "4", "5", "6", "7", "8", "9"}
UpperLetters ==
    <<"A", "B", "C", "D", "E", "F", "G", "H", "I", "J", "K", "L", "M",
      "N", "O", "P", "Q", "R", "S", "T", "U", "V", "W", "X", "Y", "Z">>
LowerLetters ==
    <<"a", "b", "c", "d", "e", "f", "g", "h", "i", "j", "k", "l", "m",
      "n", "o", "p", "q", "r", "s", "t", "u", "v", "w", "x", "y", "z">>
Range(f) == {f[i] : i \in DOMAIN f}

\* String.prototype.toLowerCase, one character at a time.
LowerOf ==
    [c \in Range(UpperLetters) |->
        LowerLetters[CHOOSE i \in 1..Len(UpperLetters) : UpperLetters[i] = c]]
UpperSet == Range(UpperLetters)
toLowerChar(c) == IF c \in UpperSet THEN LowerOf[c] ELSE c
toLowerCase(s) == [i \in 1..Len(s) |-> toLowerChar(s[i])]

\* \s of the patterns and the white space String.prototype.trim removes.
WhiteSpace == {" ", "\t", "\n", "\r"}
\* [A-Za-z0-9_-] (the patterns carry the i flag).
IdChars == Range(UpperLetters) \cup Range(LowerLetters) \cup Digits \cup {"_", "-"}
\* The lookahead's class [\s)\]}>"'.,!?].
Delimiters == WhiteSpace \cup {")", "]", "}", ">", "\"", "'", ".", ",", "!", "?"}

\* ------------------------------------------------------------------ texts
RECURSIVE trimStart(_)
trimStart(s) ==
    IF s # <<>> /\ Head(s) \in WhiteSpace THEN trimStart(Tail(s)) ELSE s
RECURSIVE trimEnd(_)
trimEnd(s) ==
    IF s # <<>> /\ s[Len(s)] \in WhiteSpace
    THEN trimEnd(SubSeq(s, 1, Len(s) - 1))
    ELSE s
\* String.prototype.trim
trim(s) == trimEnd(trimStart(s))

\* The least of the positions S, 0 when there is none.
firstOf(S) == IF S = {} THEN 0 ELSE CHOOSE p \in S : \A q \in S : p <= q

\* Whether the literal lit (lower case) stands in s at position i (1-based),
\* compared without regard to case.
litAt(s, i, lit) ==
    /\ i + Len(lit) - 1 <= Len(s)
    /\ \A k \in 1..Len(lit) : toLowerChar(s[i + k - 1]) = lit[k]

\* The first position >= i at which lit stands in s, case-sensitively
\* (String.prototype.indexOf), 0 when there is none.
indexOf(s, lit, i) ==
    firstOf({p \in i..Len(s) :
                /\ p + Len(lit) - 1 <= Len(s)
                /\ \A k \in 1..Len(lit) : s[p + k - 1] = lit[k]})
includes(s, lit) == indexOf(s, lit, 1) # 0

\* The length of the longest run of characters of class cls that starts at
\* position i of s.
RECURSIVE runLen(_, _, _)
runLen(s, i, cls) ==
    IF i <= Len(s) /\ s[i] \in cls THEN 1 + runLen(s, i + 1, cls) ELSE 0

\* ---------------------------------------------------------------- literals
LitHttps == <<"h", "t", "t", "p", "s", ":", "/", "/">>
LitHttp == <<"h", "t", "t", "p", ":", "/", "/">>
LitWww == <<"w", "w", "w", ".">>
LitHost ==
    <<"s", "t", "e", "a", "m", "c", "o", "m", "m", "u", "n", "i", "t", "y",
      ".", "c", "o", "m", "/">>
LitId == <<"i", "d", "/">>
LitUser == <<"u", "s", "e", "r", "/">>
LitProfiles == <<"p", "r", "o", "f", "i", "l", "e", "s", "/">>
LitGroups == <<"g", "r", "o", "u", "p", "s", "/">>
LitGid == <<"g", "i", "d", "/">>

\* ----------------------------------------------------------------- REGEX
\* The bounds of \d{15,25}.
MinIdDigits == 15
MaxIdDigits == 25

\* The five shared patterns, all of the shape
\*   (?:https?:\/\/)?(?:www\.)?steamcommunity\.com\/<seg>\/(<id>)(?=$|[\s)\]}>"'.,!?])
\* with the flags g and i; <id> is [A-Za-z0-9_-]+ or \d{15,25}.
STEAM_VANITY_ID_REGEX == [name |-> "STEAM_VANITY_ID_REGEX", seg |-> LitId, numeric |-> FALSE]
STEAM_USER_REGEX == [name |-> "STEAM_USER_REGEX", seg |-> LitUser, numeric |-> FALSE]
STEAM_PROFILE_REGEX == [name |-> "STEAM_PROFILE_REGEX", seg |-> LitProfiles, numeric |-> TRUE]
STEAM_GROUPS_REGEX == [name |-> "STEAM_GROUPS_REGEX", seg |-> LitGroups, numeric |-> FALSE]
STEAM_GID_REGEX == [name |-> "STEAM_GID_REGEX", seg |-> LitGid, numeric |-> TRUE]
RegexNames ==
    {"STEAM_VANITY_ID_REGEX", "STEAM_USER_REGEX", "STEAM_PROFILE_REGEX",
     "STEAM_GROUPS_REGEX", "STEAM_GID_REGEX"}

NoMatch == [found |-> FALSE]

\* The class of the identifier of the pattern re, and the lengths it takes.
idClass(re) == IF re.numeric THEN Digits ELSE IdChars
idLength(re, n) == IF re.numeric THEN n >= MinIdDigits /\ n <= MaxIdDigits ELSE n >= 1

\* (?:https?:\/\/)? and (?:www\.)? tried at position i of s: the position
\* after them.  The optional groups are greedy and leave the matcher no
\* second way: a text that starts with the protocol or with www. cannot
\* start with the host.
afterProtocol(s, i) ==
    IF litAt(s, i, LitHttps) THEN i + Len(LitHttps)
    ELSE IF litAt(s, i, LitHttp) THEN i + Len(LitHttp)
    ELSE i
afterWww(s, p) == IF litAt(s, p, LitWww) THEN p + Len(LitWww) ELSE p

\* The identifier of n characters at position p of s, after a match of the
\* rest of the pattern that starts at position i.  The identifier is greedy,
\* and a shorter identifier is never followed by a delimiter, so the match is
\* the one that takes the whole run, or none.
matchId(s, i, re, p, n) ==
    IF idLength(re, n) /\ (p + n > Len(s) \/ s[p + n] \in Delimiters)
    THEN [found |-> TRUE, index |-> i - 1, end |-> p + n - 1,
          m0 |-> SubSeq(s, i, p + n - 1), g1 |-> SubSeq(s, p, p + n - 1)]
    ELSE NoMatch
\* steamcommunity\.com\/<seg>\/ at position p of s, and the identifier.
matchHost(s, i, re, p) ==
    IF litAt(s, p, LitHost \o re.seg)
    THEN matchId(s, i, re, p + Len(LitHost) + Len(re.seg),
                 runLen(s, p + Len(LitHost) + Len(re.seg), idClass(re)))
    ELSE NoMatch
\* The pattern re tried at position i (1-based) of s.
matchAt(s, i, re) == matchHost(s, i, re, afterWww(s, afterProtocol(s, i)))

\* The characters a match can start with: those of http, www. and the host.
FirstChars == {"h", "H", "w", "W", "s", "S"}

\* RegExp.prototype.exec of a global pattern whose cursor is lastIndex
\* (0-based): the first match that starts at or after the cursor.  The field
\* lastIndex of the result is the cursor exec leaves: the end of the match,
\* or 0 when there is none.
execResult(m) == [found |-> TRUE, m0 |-> m.m0, g1 |-> m.g1, lastIndex |-> m.end]
execAt(s, re, i) ==
    IF i = 0 THEN [found |-> FALSE, lastIndex |-> 0] ELSE execResult(matchAt(s, i, re))
exec(s, re, lastIndex) ==
    execAt(s, re, firstOf({i \in (lastIndex + 1)..Len(s) :
                              s[i] \in FirstChars /\ matchAt(s, i, re).found}))

\* [...s.matchAll(re)].map((m) => m[0]): matchAll works on a clone of the
\* pattern that starts at the pattern's own cursor, and leaves the pattern's
\* cursor alone.
RECURSIVE matchAll(_, _, _)
matchesFrom(s, re, m) ==
    IF m.found THEN <<m.m0>> \o matchAll(s, re, m.lastIndex) ELSE <<>>
matchAll(s, re, lastIndex) == matchesFrom(s, re, exec(s, re, lastIndex))

\* s.match(/steamcommunity\.com\/<seg>\/(<id>)/i)?.[1]: no g flag, no
\* lookahead; <<>> stands for no match.
looseId(s, re, p, n) ==
    SubSeq(s, p, p + (IF re.numeric /\ n > MaxIdDigits THEN MaxIdDigits ELSE n) - 1)
looseAt(s, re, i) ==
    IF i = 0 THEN <<>>
    ELSE looseId(s, re, i + Len(LitHost) + Len(re.seg),
                 runLen(s, i + Len(LitHost) + Len(re.seg), idClass(re)))
matchLoose(s, re) ==
    looseAt(s, re,
            firstOf({i \in 1..Len(s) :
                        /\ s[i] \in {"s", "S"}
                        /\ litAt(s, i, LitHost \o re.seg)
                        /\ runLen(s, i + Len(LitHost) + Len(re.seg), idClass(re))
                               >= (IF re.numeric THEN MinIdDigits ELSE 1)}))

\* --------------------------------------------------------------- HELPERS
\* The character U+0060, which a TLA+ string cannot hold.
Backtick == "U+0060"
Fence == <<Backtick, Backtick, Backtick>>

\* text.replace(/```[\s\S]*?```/g, '') for the mark ``` and
\* text.replace(/`[^`]*`/g, '') for the mark `: the first mark that another
\* one closes is cut out with all up to the nearest closing mark; a mark
\* nothing closes stays, and so does whatever follows it.
RECURSIVE stripPairs(_, _)
stripTo(s, mark, open, close) ==
    IF close = 0 THEN s
    ELSE SubSeq(s, 1, open - 1)
             \o stripPairs(SubSeq(s, close + Len(mark), Len(s)), mark)
stripFrom(s, mark, open) ==
    IF open = 0 THEN s ELSE stripTo(s, mark, open, indexOf(s, mark, open + Len(mark)))
stripPairs(s, mark) == stripFrom(s, mark, indexOf(s, mark, 1))

stripCodeBlocks(text) == stripPairs(stripPairs(text, Fence), <<Backtick>>)

\* A variant of uniqueStable: every element is kept.
uniqueStableKeepsAll(arr) == arr

RECURSIVE uniqueStable(_)
pushNew(out, x) == IF x \in Range(out) THEN out ELSE Append(out, x)
uniqueStable(arr) ==
    IF arr = <<>> THEN <<>>
    ELSE pushNew(uniqueStable(SubSeq(arr, 1, Len(arr) - 1)), arr[Len(arr)])

\* input.trim().replace(/^<|>$/g, '')
withoutLt(t) == IF t # <<>> /\ Head(t) = "<" THEN Tail(t) ELSE t
withoutGt(t) == IF t # <<>> /\ t[Len(t)] = ">" THEN SubSeq(t, 1, Len(t) - 1) ELSE t
normalizeInput(input) == withoutGt(withoutLt(trim(input)))

\* A variant of isSteamId64: digits of any number.
isSteamId64OfAnyLength(s) == \A i \in 1..Len(trim(s)) : trim(s)[i] \in Digits

\* /^\d{15,25}$/.test(s.trim())
isId64(t) ==
    /\ Len(t) >= MinIdDigits
    /\ Len(t) <= MaxIdDigits
    /\ \A i \in 1..Len(t) : t[i] \in Digits
isSteamId64(s) == isId64(trim(s))

withProtocol(v) ==
    IF Len(v) >= 4 /\ SubSeq(v, 1, 4) = <<"h", "t", "t", "p">> THEN v ELSE LitHttps \o v
ensureUrl(s) == withProtocol(trim(s))

\* null and undefined: one-element sequences no text equals, a text being a
\* sequence of one-character strings.
Null == <<"#null">>
Undefined == <<"#undefined">>
\* !v for a value that is a string, null or undefined.
falsy(v) == v = <<>> \/ v = Null \/ v = Undefined

\* regex.lastIndex = 0; const m = regex.exec(text); return m?.[1] ?? null
\* lastIndex is the cursor the call leaves in regex.
firstGroup(m) == [value |-> IF m.found THEN m.g1 ELSE Null, lastIndex |-> m.lastIndex]
extractFirstGroup(text, regex) == firstGroup(exec(text, regex, 0))

\* ----------------------------------------------------- GLOBAL PROFILES DB
\* note?.trim()
trimNote(note) == IF note = Undefined THEN Undefined ELSE trim(note)
\* note?.trim() || undefined
orUndefined(v) == IF falsy(v) THEN Undefined ELSE v
noteOrUndefined(note) == orUndefined(trimNote(note))

\* list.findIndex((p) => p[field] === key), 0 when there is none.
findIndex(list, field, key) == firstOf({i \in 1..Len(list) : list[i][field] = key})

\* list.filter((p) => p[field] !== key)
RECURSIVE filterOut(_, _, _)
filterOut(list, field, key) ==
    IF list = <<>> THEN <<>>
    ELSE IF Head(list)[field] = key
         THEN filterOut(Tail(list), field, key)
         ELSE <<Head(list)>> \o filterOut(Tail(list), field, key)

\* Variants of the two branches, each departing from the code in one respect:
\* a record found is never updated;
upsertAtNeverUpdates(list, idx, trimmed, fresh) ==
    IF idx > 0
    THEN [list |-> list, result |-> "exists", saved |-> FALSE]
    ELSE [list |-> Append(list, fresh), result |-> "added", saved |-> TRUE]
\* the record is pushed whether or not the key is found;
upsertAtAlwaysPushes(list, idx, trimmed, fresh) ==
    [list |-> Append(list, fresh), result |-> "added", saved |-> TRUE]
\* an update takes the time of the update for addedAt;
upsertAtResetsAddedAt(list, idx, trimmed, fresh) ==
    IF idx > 0
    THEN IF falsy(trimmed) \/ list[idx].note = trimmed
         THEN [list |-> list, result |-> "exists", saved |-> FALSE]
         ELSE [list |-> [list EXCEPT ![idx] = [@ EXCEPT !.note = trimmed,
                                                        !.addedAt = fresh.addedAt]],
               result |-> "updated", saved |-> TRUE]
    ELSE [list |-> Append(list, fresh), result |-> "added", saved |-> TRUE]
\* a note is written without being compared with the stored one;
upsertAtIgnoresStoredNote(list, idx, trimmed, fresh) ==
    IF idx > 0
    THEN IF falsy(trimmed)
         THEN [list |-> list, result |-> "exists", saved |-> FALSE]
         ELSE [list |-> [list EXCEPT ![idx] = [@ EXCEPT !.note = trimmed]],
               result |-> "updated", saved |-> TRUE]
    ELSE [list |-> Append(list, fresh), result |-> "added", saved |-> TRUE]
\* an update is not saved.
upsertAtForgetsSave(list, idx, trimmed, fresh) ==
    IF idx > 0
    THEN IF falsy(trimmed) \/ list[idx].note = trimmed
         THEN [list |-> list, result |-> "exists", saved |-> FALSE]
         ELSE [list |-> [list EXCEPT ![idx] = [@ EXCEPT !.note = trimmed]],
               result |-> "updated", saved |-> FALSE]
    ELSE [list |-> Append(list, fresh), result |-> "added", saved |-> TRUE]

\* The two branches of upsertProfile and of upsertGroup: idx is the place of
\* the record with the key in list (0: none), trimmed the trimmed note and
\* fresh the record to push.
upsertAt(list, idx, trimmed, fresh) ==
    IF idx > 0
    THEN IF falsy(trimmed) \/ list[idx].note = trimmed
         THEN [list |-> list, result |-> "exists", saved |-> FALSE]
         ELSE [list |-> [list EXCEPT ![idx] = [@ EXCEPT !.note = trimmed]],
               result |-> "updated", saved |-> TRUE]
    ELSE [list |-> Append(list, fresh), result |-> "added", saved |-> TRUE]

\* upsertProfile on the list it finds in profilesDB at time now: the list it
\* leaves, its result, and whether it called saveProfiles.
upsertProfile(list, steamid64, note, now) ==
    upsertAt(list, findIndex(list, "steamid64", steamid64), trimNote(note),
             [steamid64 |-> steamid64, note |-> noteOrUndefined(note), addedAt |-> now])

\* A variant of filtered: the result is true whatever the filter removed.
filteredAlwaysTrue(list, after) == [list |-> after, result |-> TRUE, saved |-> TRUE]

\* The outcome of a filter: the list it leaves, whether its length changed,
\* and the call of the save function.
filtered(list, after) ==
    [list |-> after, result |-> Len(after) # Len(list), saved |-> TRUE]
removeProfile(list, steamid64) == filtered(list, filterOut(list, "steamid64", steamid64))

clearProfiles(list) == [list |-> <<>>, saved |-> TRUE]

\* ------------------------------------------------------- GLOBAL GROUPS DB
GidKey == <<"g", "i", "d", ":">>
GroupsKey == <<"g", "r", "o", "u", "p", "s", ":">>
UrlGid == LitHttps \o LitHost \o LitGid
UrlGroups == LitHttps \o LitHost \o LitGroups
UrlProfiles == LitHttps \o LitHost \o LitProfiles

gidGroup(gid, note, now) ==
    [key |-> GidKey \o gid, url |-> UrlGid \o gid, gid64 |-> gid,
     name |-> Undefined, note |-> noteOrUndefined(note), addedAt |-> now]
\* A variant of nameGroup: the name is stored in lower case.
nameGroupLowered(name, note, now) ==
    [key |-> GroupsKey \o toLowerCase(name), url |-> UrlGroups \o toLowerCase(name),
     gid64 |-> Undefined, name |-> toLowerCase(name), note |-> noteOrUndefined(note),
     addedAt |-> now]
\* A variant of nameGroup: the key keeps the casing of the name.
nameGroupKeyAsIs(name, note, now) ==
    [key |-> GroupsKey \o name, url |-> UrlGroups \o name,
     gid64 |-> Undefined, name |-> name, note |-> noteOrUndefined(note),
     addedAt |-> now]

nameGroup(name, note, now) ==
    [key |-> GroupsKey \o toLowerCase(name), url |-> UrlGroups \o name,
     gid64 |-> Undefined, name |-> name, note |-> noteOrUndefined(note),
     addedAt |-> now]

\* makeGroupFromInput at time now, the patterns' cursors being li: the group
\* (ok is FALSE for null), and the cursors the call leaves.  Its four
\* attempts in turn: gid and name are what extractFirstGroup returned, nm and
\* gid2 what the patterns without the g flag matched.
groupOf(group, li) == [ok |-> TRUE, group |-> group, lastIndex |-> li]
fromLooseGid(gid2, note, now, li) ==
    IF ~falsy(gid2) THEN groupOf(gidGroup(gid2, note, now), li)
    ELSE [ok |-> FALSE, lastIndex |-> li]
fromLooseName(input, nm, note, now, li) ==
    IF ~falsy(nm) THEN groupOf(nameGroup(nm, note, now), li)
    ELSE fromLooseGid(IF includes(input, LitHost \o LitGid)
                      THEN matchLoose(input, STEAM_GID_REGEX) ELSE <<>>,
                      note, now, li)
fromName(input, name, note, now, li) ==
    IF ~falsy(name.value)
    THEN groupOf(nameGroup(name.value, note, now),
                 [li EXCEPT !["STEAM_GROUPS_REGEX"] = name.lastIndex])
    ELSE fromLooseName(input,
                       IF includes(input, LitHost \o LitGroups)
                       THEN matchLoose(input, STEAM_GROUPS_REGEX) ELSE <<>>,
                       note, now, [li EXCEPT !["STEAM_GROUPS_REGEX"] = name.lastIndex])
fromGid(input, gid, note, now, li) ==
    IF ~falsy(gid.value)
    THEN groupOf(gidGroup(gid.value, note, now),
                 [li EXCEPT !["STEAM_GID_REGEX"] = gid.lastIndex])
    ELSE fromName(input, extractFirstGroup(input, STEAM_GROUPS_REGEX), note, now,
                  [li EXCEPT !["STEAM_GID_REGEX"] = gid.lastIndex])
fromInput(input, note, now, li) ==
    fromGid(input, extractFirstGroup(input, STEAM_GID_REGEX), note, now, li)
makeGroupFromInput(inputRaw, note, now, li) ==
    fromInput(normalizeInput(inputRaw), note, now, li)

upsertGroup(list, group) ==
    upsertAt(list, findIndex(list, "key", group.key), trimNote(group.note), group)

removeGroupByKey(list, key) == filtered(list, filterOut(list, "key", key))

clearGroups(list) == [list |-> <<>>, saved |-> TRUE]

\* ------------------------------------------------------- backing files
\* No file at the path.
NoFile == [missing |-> TRUE]
OptionalFields == {"note", "gid64", "name"}
\* JSON.stringify of a record: a property whose value is undefined is left out.
stringifyRecord(r) ==
    [k \in {f \in DOMAIN r : ~(f \in OptionalFields /\ r[f] = Undefined)} |-> r[k]]
stringifyList(list) == [i \in 1..Len(list) |-> stringifyRecord(list[i])]
\* JSON.stringify(profilesDB, null, 2) and JSON.stringify(groupsDB, null, 2)
stringifyProfiles(list) == [profiles |-> stringifyList(list)]
stringifyGroups(list) == [groups |-> stringifyList(list)]
\* JSON.stringify(guildSettings, null, 2)
stringifySettings(settings) == settings

\* fs.writeFileSync inside try/catch: the file's content after the call,
\* which a failed write leaves as it was.
writeFile(old, content, ok) == IF ok THEN content ELSE old

\* ------------------------------------------------------ identity resolver
\* resolveToSteamId64 up to its await, the patterns' cursors being li:
\* either it returns value (Null for null), or it calls api.resolve(url) and
\* is suspended.  lastIndex holds the cursors it leaves.
returned(value, li) == [call |-> FALSE, value |-> value, lastIndex |-> li]
afterTests(input, looksLikeVanity, li) ==
    IF ~looksLikeVanity THEN returned(Null, li)
    ELSE [call |-> TRUE, url |-> ensureUrl(input), lastIndex |-> li]
afterProfile(input, prof, li) ==
    IF ~falsy(prof.value)
    THEN returned(prof.value, [li EXCEPT !["STEAM_PROFILE_REGEX"] = prof.lastIndex])
    ELSE afterTests(input,
                    \/ exec(input, STEAM_VANITY_ID_REGEX, li["STEAM_VANITY_ID_REGEX"]).found
                    \/ exec(input, STEAM_USER_REGEX, li["STEAM_USER_REGEX"]).found,
                    [li EXCEPT !["STEAM_PROFILE_REGEX"] = prof.lastIndex,
                               !["STEAM_VANITY_ID_REGEX"] = 0,
                               !["STEAM_USER_REGEX"] = 0])
resolveInput(input, li) ==
    IF isSteamId64(input) THEN returned(input, li)
    ELSE afterProfile(input, extractFirstGroup(input, STEAM_PROFILE_REGEX), li)
resolveToSteamId64(inputRaw, li) == resolveInput(normalizeInput(inputRaw), li)

\* A variant of resolved: a throw of api.resolve yields the text "0".
resolvedDespiteThrow(answer) == IF answer.ok THEN answer.value ELSE <<"0">>

\* What api.resolve answers: a value, or a throw, which the catch of
\* resolveToSteamId64 turns into null.
resolved(answer) == IF answer.ok THEN answer.value ELSE Null

\* ------------------------------------------------------- bulk extraction
\* \w
WordChars == Range(UpperLetters) \cup Range(LowerLetters) \cup Digits \cup {"_"}

\* [...text.matchAll(/\b\d{15,25}\b/g)].map((m) => m[0]), from position from
\* on: a run of digits matches whole or not at all, a boundary being
\* impossible inside it.
RECURSIVE bareIds(_, _)
bareRun(s, i, n) ==
    IF /\ i = 1 \/ s[i - 1] \notin WordChars
       /\ i + n > Len(s) \/ s[i + n] \notin WordChars
       /\ n >= MinIdDigits /\ n <= MaxIdDigits
    THEN <<SubSeq(s, i, i + n - 1)>> \o bareIds(s, i + n)
    ELSE bareIds(s, i + n)
bareAt(s, i) == IF i = 0 THEN <<>> ELSE bareRun(s, i, runLen(s, i, Digits))
bareIds(s, from) == bareAt(s, firstOf({k \in from..Len(s) : s[k] \in Digits}))

\* text.split(/\r?\n/)
RECURSIVE splitLines(_)
splitAt(s, nl) ==
    IF nl = 0 THEN <<s>>
    ELSE <<SubSeq(s, 1, IF nl > 1 /\ s[nl - 1] = "\r" THEN nl - 2 ELSE nl - 1)>>
             \o splitLines(SubSeq(s, nl + 1, Len(s)))
splitLines(s) == splitAt(s, indexOf(s, <<"\n">>, 1))

\* line.trim().replace(/^<|>$/g, '') for each line, those kept that are not
\* empty and hold one of the literals lits.
RECURSIVE linesWith(_, _)
keptLine(l, rest, lits) ==
    IF l # <<>> /\ \E lit \in lits : includes(l, lit)
    THEN <<l>> \o linesWith(rest, lits)
    ELSE linesWith(rest, lits)
linesWith(lines, lits) ==
    IF lines = <<>> THEN <<>>
    ELSE keptLine(normalizeInput(Head(lines)), Tail(lines), lits)

\* extractSteamCandidatesFromText, the patterns' cursors being li.
steamCandidates(text, li) ==
    [candidates |->
        uniqueStable(
            matchAll(text, STEAM_VANITY_ID_REGEX, li["STEAM_VANITY_ID_REGEX"])
                \o matchAll(text, STEAM_USER_REGEX, li["STEAM_USER_REGEX"])
                \o matchAll(text, STEAM_PROFILE_REGEX, li["STEAM_PROFILE_REGEX"])
                \o bareIds(text, 1)
                \o linesWith(splitLines(text), {LitHost})),
     lastIndex |-> [li EXCEPT !["STEAM_VANITY_ID_REGEX"] = 0,
                              !["STEAM_USER_REGEX"] = 0,
                              !["STEAM_PROFILE_REGEX"] = 0]]
extractSteamCandidatesFromText(raw, li) == steamCandidates(stripCodeBlocks(raw), li)

\* extractGroupCandidatesFromText, the patterns' cursors being li.
groupCandidates(text, li) ==
    [candidates |->
        uniqueStable(
            matchAll(text, STEAM_GROUPS_REGEX, li["STEAM_GROUPS_REGEX"])
                \o matchAll(text, STEAM_GID_REGEX, li["STEAM_GID_REGEX"])
                \o linesWith(splitLines(text), {LitHost \o LitGroups, LitHost \o LitGid})),
     lastIndex |-> [li EXCEPT !["STEAM_GROUPS_REGEX"] = 0,
                              !["STEAM_GID_REGEX"] = 0]]
extractGroupCandidatesFromText(raw, li) == groupCandidates(stripCodeBlocks(raw), li)

\* ----------------------------------------------------------------- import
MAX_IMPORT_ITEMS == 300

\* A variant of capped: every candidate is processed.
uncapped(candidates) == candidates

\* candidates.slice(0, MAX_IMPORT_ITEMS)
capped(candidates) ==
    SubSeq(candidates, 1,
           IF Len(candidates) > MAX_IMPORT_ITEMS THEN MAX_IMPORT_ITEMS ELSE Len(candidates))

NoCounts == [added |-> 0, updated |-> 0, exists |-> 0, failed |-> 0]
count(counts, what) == [counts EXCEPT ![what] = @ + 1]

\* What one command handler, from one suspension to the next, has done so
\* far: list is the collection it works on, writes the contents it handed to
\* writeFileSync, in order; last and insertedAt are the record of the store's
\* latest operation and of the time each stored key was inserted.
running(list, li, lastOp, inserted, guild, enabled) ==
    [list |-> list, lastIndex |-> li, counts |-> NoCounts, writes |-> <<>>,
     last |-> lastOp, insertedAt |-> inserted, guild |-> guild,
     enabled |-> enabled, items |-> <<>>, waiting |-> FALSE, url |-> <<>>]

\* f with key mapped to value.
put(f, key, value) ==
    [k \in DOMAIN f \cup {key} |-> IF k = key THEN value ELSE f[k]]

\* The handler whose run is st has called an upsert with key and note at
\* time now, which returned r; content is what r.list is saved as.
upserted(st, r, op, key, note, now, content) ==
    [st EXCEPT
        !.list = r.list,
        !.counts = count(@, r.result),
        !.writes = IF r.saved THEN Append(@, content) ELSE @,
        !.insertedAt = IF r.result = "added" THEN put(@, key, now) ELSE @,
        !.last = [op |-> op, key |-> key, note |-> note,
                  result |-> r.result, saved |-> r.saved, pre |-> st.list,
                  now |-> now, guild |-> st.guild, enabled |-> st.enabled,
                  repeat |-> /\ st.last.op = op
                             /\ st.last.key = key
                             /\ st.last.note = note]]

\* upsertProfile(id64, note) called by a command handler.
savedProfiles(st, r, id64, note, now) ==
    upserted(st, r, "upsertProfile", id64, note, now, stringifyProfiles(r.list))
callUpsertProfile(st, id64, note, now) ==
    savedProfiles(st, upsertProfile(st.list, id64, note, now), id64, note, now)

\* upsertGroup(group) called by a command handler.
savedGroups(st, r, group, note, now) ==
    upserted(st, r, "upsertGroup", group.key, note, now, stringifyGroups(r.list))
callUpsertGroup(st, group, note, now) ==
    savedGroups(st, upsertGroup(st.list, group), group, note, now)

\* A variant of importStep: an item that does not resolve is not counted.
importStepDropsFailure(st, id64, note, now) ==
    IF falsy(id64) THEN st ELSE callUpsertProfile(st, id64, note, now)

\* The body of the loop of importManyProfiles for an item resolved to id64.
importStep(st, id64, note, now) ==
    IF falsy(id64)
    THEN [st EXCEPT !.counts = count(@, "failed")]
    ELSE callUpsertProfile(st, id64, note, now)

\* The loop of importManyProfiles over list as far as it runs without being
\* suspended: to the end of the list, or to the first item for which
\* resolveToSteamId64 calls api.resolve.  importRange goes through the items
\* at the places lo..hi in order, one half after the other, and leaves the
\* run as it is once the loop is suspended.
importItem(st, r, rest, note, now) ==
    IF r.call
    THEN [st EXCEPT !.lastIndex = r.lastIndex, !.items = rest,
                    !.waiting = TRUE, !.url = r.url]
    ELSE importStep([st EXCEPT !.lastIndex = r.lastIndex], r.value, note, now)
RECURSIVE importRange(_, _, _, _, _, _)
importRange(st, list, note, now, lo, hi) ==
    IF st.waiting \/ lo > hi THEN st
    ELSE IF lo = hi
         THEN importItem(st, resolveToSteamId64(list[lo], st.lastIndex),
                         SubSeq(list, lo + 1, Len(list)), note, now)
         ELSE importRange(importRange(st, list, note, now, lo, (lo + hi) \div 2),
                          list, note, now, (lo + hi) \div 2 + 1, hi)
importManyProfiles(st, items, note, now) ==
    importRange(st, items, note, now, 1, Len(items))

\* importManyGroups: no item suspends it, so waiting stays FALSE in its runs.
importGroup(st, g, note, now) ==
    IF ~g.ok
    THEN [st EXCEPT !.lastIndex = g.lastIndex, !.counts = count(@, "failed")]
    ELSE callUpsertGroup([st EXCEPT !.lastIndex = g.lastIndex], g.group, note, now)
RECURSIVE groupRange(_, _, _, _, _, _)
groupRange(st, list, note, now, lo, hi) ==
    IF st.waiting \/ lo > hi THEN st
    ELSE IF lo = hi
         THEN importGroup(st, makeGroupFromInput(list[lo], note, now, st.lastIndex),
                          note, now)
         ELSE groupRange(groupRange(st, list, note, now, lo, (lo + hi) \div 2),
                         list, note, now, (lo + hi) \div 2 + 1, hi)
importManyGroups(st, items, note, now) ==
    groupRange(st, items, note, now, 1, Len(items))

\* --------------------------------------------------------------- SETTINGS
\* guildSettings[guildId]?.enabled ?? true
isPermalinkEnabled(settings, guildId) ==
    IF guildId \in DOMAIN settings THEN settings[guildId].enabled ELSE TRUE

setPermalinkEnabled(settings, guildId, enabled) ==
    [settings |-> put(settings, guildId, [enabled |-> enabled]), saved |-> TRUE]

\* ------------------------------------------------------------- the inputs
Rep(c, n) == [i \in 1..n |-> c]
\* 76561198000000000 and 111111111111111: 17 and 15 digits.
SteamIdA == <<"7", "6", "5", "6", "1", "1", "9", "8">> \o Rep("0", 9)
SteamIdB == Rep("1", 15)
\* Too short by one digit.
Digits14 == Rep("2", 14)
\* "< 76561198000000000>"
AngleSpaced == <<"<", " ">> \o SteamIdA \o <<">">>
\* "<https://steamcommunity.com/profiles/76561198000000000>"
ProfileUrlA == <<"<">> \o UrlProfiles \o SteamIdA \o <<">">>
\* "steamcommunity.com/id/Gabe"
VanityUrl == LitHost \o LitId \o <<"G", "a", "b", "e">>

\* "https://steamcommunity.com/groups/Valve", the same name in lower case
\* and without the protocol, and a gid of 18 and one of 26 digits.
GroupUrl == UrlGroups \o <<"V", "a", "l", "v", "e">>
GroupUrlLower == LitHost \o LitGroups \o <<"v", "a", "l", "v", "e">>
Gid18 == <<"1", "0", "3", "5", "8", "2", "7", "9">> \o Rep("4", 10)
GidUrl == LitHost \o LitGid \o Gid18
GidUrlLong == LitHost \o LitGid \o Rep("3", 26)
\* "steamcommunity.com/x"
NoLink == LitHost \o <<"x">>

\* The texts of the imports, line by line.
ProfilesText1 == SteamIdA \o <<"\n">> \o VanityUrl \o <<"\r", "\n">> \o SteamIdB
ProfilesText2 == NoLink \o <<"\n">> \o ProfileUrlA
GroupsText1 == GroupUrl \o <<"\n">> \o GidUrl \o <<"\n">> \o GroupUrlLower

NoteBlank == <<" ">>
NoteA == <<" ", "A", " ">>
NoteB == <<"B">>
Notes == {Undefined, NoteBlank, NoteA, NoteB}

Guilds == {"g1", "g2"}

\* What api.resolve may answer to one call.
ResolverAnswers ==
    {[ok |-> TRUE, value |-> SteamIdA], [ok |-> TRUE, value |-> <<"7">>],
     [ok |-> FALSE]}

\* ----------------------------------------------------------------- bounds
\* Date.now() when the process starts.
StartTime == 10000000
MaxTicks == 2
MaxOps == 2
MaxTasks == 1
MaxHandlers == 2
MaxEvents == 3

Tasks == 1..MaxTasks
Handlers == 1..MaxHandlers
Idle == [pc |-> "idle"]

\* ------------------------------------------------------------------ state
VARIABLES
    clock,              \* Date.now()
    nTicks,             \* how often the clock has advanced
    lastIndex,          \* the cursor of each of the five shared patterns
    guildSettings,
    profiles,           \* profilesDB.profiles
    groups,             \* groupsDB.groups
    disk,               \* the content of the three files
    writeStatus,        \* how the latest writeFileSync of each file ended
    insertedAt,         \* the time each stored key was inserted at
    last,               \* the store's or the settings' latest operation
    importResult,       \* what the latest completed import returned
    nOps,               \* the commands received so far
    tasks,              \* the command handlers suspended at api.resolve
    lastReplyAtByUser,  \* author id -> the time its latest reply is recorded with
    repliedMessageIds,  \* message id -> the time its reply is recorded with
    handlers,           \* the invocations of handleMessage
    replies             \* the replies message.reply has delivered, in order

storeVars ==
    <<guildSettings, profiles, groups, disk, writeStatus, insertedAt, last,
      importResult, nOps, tasks>>
messageVars == <<lastReplyAtByUser, repliedMessageIds, handlers, replies>>
vars == <<clock, nTicks, lastIndex, storeVars, messageVars>>

Init ==
    /\ clock = StartTime
    /\ nTicks = 0
    /\ lastIndex = [r \in RegexNames |-> 0]
    /\ guildSettings = << >>
    /\ profiles = << >>
    /\ groups = << >>
    /\ disk = [settings |-> NoFile, profiles |-> NoFile, groups |-> NoFile]
    /\ writeStatus = [settings |-> "none", profiles |-> "none", groups |-> "none"]
    /\ insertedAt = [profiles |-> << >>, groups |-> << >>]
    /\ last = [op |-> "none"]
    /\ importResult = [op |-> "none"]
    /\ nOps = 0
    /\ tasks = [t \in Tasks |-> Idle]
    /\ lastReplyAtByUser = << >>
    /\ repliedMessageIds = << >>
    /\ handlers = [h \in Handlers |-> Idle]
    /\ replies = << >>

\* Date.now() advances by d.
Tick(d) ==
    /\ nTicks < MaxTicks
    /\ clock' = clock + d
    /\ nTicks' = nTicks + 1
    /\ UNCHANGED <<lastIndex, storeVars, messageVars>>

\* A variant of written: the content of a write that threw is in the file.
writtenDespiteFailure(old, writes, ok) ==
    IF writes = << >> THEN old ELSE writes[Len(writes)]

\* The writes of a handler's run reach the file: ok is the number of the
\* last writeFileSync that did not throw (0: none).
written(old, writes, ok) == IF ok = 0 THEN old ELSE writes[ok]
statusAfter(old, writes, ok) ==
    IF writes = << >> THEN old ELSE IF ok = Len(writes) THEN "ok" ELSE "failed"

\* The handler whose run is st returns or is suspended: what it did to the
\* profiles, and to the groups, whichever of its writes reached the file.
LeaveProfiles(st) ==
    /\ profiles' = st.list
    /\ lastIndex' = st.lastIndex
    /\ last' = st.last
    /\ insertedAt' = [insertedAt EXCEPT !.profiles = st.insertedAt]
    /\ \E ok \in 0..Len(st.writes) :
        /\ disk' = [disk EXCEPT !.profiles = written(@, st.writes, ok)]
        /\ writeStatus' = [writeStatus EXCEPT !.profiles = statusAfter(@, st.writes, ok)]
    /\ UNCHANGED <<clock, nTicks, guildSettings, groups, messageVars>>
LeaveGroups(st) ==
    /\ groups' = st.list
    /\ lastIndex' = st.lastIndex
    /\ last' = st.last
    /\ insertedAt' = [insertedAt EXCEPT !.groups = st.insertedAt]
    /\ \E ok \in 0..Len(st.writes) :
        /\ disk' = [disk EXCEPT !.groups = written(@, st.writes, ok)]
        /\ writeStatus' = [writeStatus EXCEPT !.groups = statusAfter(@, st.writes, ok)]
    /\ UNCHANGED <<clock, nTicks, guildSettings, profiles, messageVars>>

\* A variant of enterProfiles: the handler has a collection of its own, empty
\* when it is entered.
enterProfilesOwnList(li, guild) ==
    running(<< >>, li, last, insertedAt.profiles, guild,
            isPermalinkEnabled(guildSettings, guild))

enterProfiles(li, guild) ==
    running(profiles, li, last, insertedAt.profiles, guild,
            isPermalinkEnabled(guildSettings, guild))
enterGroups(li, guild) ==
    running(groups, li, last, insertedAt.groups, guild,
            isPermalinkEnabled(guildSettings, guild))

freeTask == CHOOSE t \in Tasks : tasks[t] = Idle /\ \A u \in Tasks : tasks[u] = Idle => t <= u
unresolved(st) == [st EXCEPT !.last = [op |-> "unresolved"]]

\* /steamprofiles add from the return of resolveToSteamId64 with id64 on.
AddProfile(st, id64, note) ==
    IF falsy(id64)
    THEN LeaveProfiles(unresolved(st))
    ELSE LeaveProfiles(callUpsertProfile(st, id64, note, clock))

\* /steamprofiles add, to its return or to its await of api.resolve.
ProfilesAdd(guild, input, note) ==
    /\ nOps < MaxOps
    /\ nOps' = nOps + 1
    /\ UNCHANGED importResult
    /\ \E r \in {resolveToSteamId64(input, lastIndex)} :
        IF r.call
        THEN /\ \E t \in Tasks : tasks[t] = Idle
             /\ tasks' = [tasks EXCEPT ![freeTask] =
                             [pc |-> "add", url |-> r.url, note |-> note, guild |-> guild]]
             /\ LeaveProfiles(enterProfiles(r.lastIndex, guild))
        ELSE /\ UNCHANGED tasks
             /\ AddProfile(enterProfiles(r.lastIndex, guild), r.value, note)

\* api.resolve answers the /steamprofiles add suspended as task t.
ProfilesAddResolved(t, answer) ==
    /\ tasks[t].pc = "add"
    /\ tasks' = [tasks EXCEPT ![t] = Idle]
    /\ UNCHANGED <<importResult, nOps>>
    /\ AddProfile(enterProfiles(lastIndex, tasks[t].guild), resolved(answer), tasks[t].note)

\* The handler whose run is st has called removeProfile, removeGroupByKey,
\* clearProfiles or clearGroups, which returned r; content is what r.list is
\* saved as.
changed(st, r, op, content) ==
    [st EXCEPT !.list = r.list, !.writes = <<content>>, !.last = op]

\* /steamprofiles remove
ProfilesRemove(guild, input) ==
    /\ nOps < MaxOps
    /\ nOps' = nOps + 1
    /\ UNCHANGED <<importResult, tasks>>
    /\ \E r \in {removeProfile(profiles, trim(input))} :
        IF ~isSteamId64(trim(input))
        THEN LeaveProfiles([enterProfiles(lastIndex, guild) EXCEPT
                               !.last = [op |-> "rejected"]])
        ELSE LeaveProfiles(changed(enterProfiles(lastIndex, guild), r,
                                   [op |-> "removeProfile", key |-> trim(input),
                                    result |-> r.result, pre |-> profiles],
                                   stringifyProfiles(r.list)))

\* /steamprofiles clear
ProfilesClear(guild) ==
    /\ nOps < MaxOps
    /\ nOps' = nOps + 1
    /\ UNCHANGED <<importResult, tasks>>
    /\ \E r \in {clearProfiles(profiles)} :
        LeaveProfiles(changed(enterProfiles(lastIndex, guild), r,
                              [op |-> "clearProfiles", pre |-> profiles],
                              stringifyProfiles(r.list)))

\* What importManyProfiles returns.
importReturn(kind, counts, processed, found) ==
    [op |-> kind, added |-> counts.added, updated |-> counts.updated,
     exists |-> counts.exists, failed |-> counts.failed,
     processed |-> processed, found |-> found,
     truncated |-> found > MAX_IMPORT_ITEMS]

\* The import whose run is st is suspended as task t, or returns.
LeaveImport(st, t, note, guild, processed, found) ==
    /\ LeaveProfiles(st)
    /\ IF st.waiting
       THEN /\ tasks' = [tasks EXCEPT ![t] =
                            [pc |-> "import", url |-> st.url, note |-> note,
                             guild |-> guild, items |-> st.items, counts |-> st.counts,
                             processed |-> processed, found |-> found]]
            /\ UNCHANGED importResult
       ELSE /\ tasks' = [tasks EXCEPT ![t] = Idle]
            /\ importResult' = importReturn("importManyProfiles", st.counts, processed, found)

\* /steamprofiles import with a text, to its return or to its first await of
\* api.resolve.
ProfilesImport(guild, text, note) ==
    /\ nOps < MaxOps
    /\ nOps' = nOps + 1
    /\ \E t \in Tasks : tasks[t] = Idle
    /\ \E ex \in {extractSteamCandidatesFromText(text, lastIndex)} :
        IF ex.candidates = << >>
        THEN /\ LeaveProfiles(enterProfiles(ex.lastIndex, guild))
             /\ UNCHANGED <<importResult, tasks>>
        ELSE \E st \in {importManyProfiles(enterProfiles(ex.lastIndex, guild),
                                           capped(ex.candidates), note, clock)} :
                LeaveImport(st, freeTask, note, guild,
                            Len(capped(ex.candidates)), Len(ex.candidates))

\* api.resolve answers the import suspended as task t, which goes on to its
\* return or to its next await.
ProfilesImportResolved(t, answer) ==
    /\ tasks[t].pc = "import"
    /\ UNCHANGED nOps
    /\ \E st \in {importManyProfiles(
                     importStep([enterProfiles(lastIndex, tasks[t].guild) EXCEPT
                                    !.counts = tasks[t].counts],
                                resolved(answer), tasks[t].note, clock),
                     tasks[t].items, tasks[t].note, clock)} :
        LeaveImport(st, t, tasks[t].note, tasks[t].guild,
                    tasks[t].processed, tasks[t].found)

\* /steamgroups add
GroupsAdd(guild, input, note) ==
    /\ nOps < MaxOps
    /\ nOps' = nOps + 1
    /\ UNCHANGED <<importResult, tasks>>
    /\ \E g \in {makeGroupFromInput(input, note, clock, lastIndex)} :
        IF ~g.ok
        THEN LeaveGroups(unresolved(enterGroups(g.lastIndex, guild)))
        ELSE LeaveGroups(callUpsertGroup(enterGroups(g.lastIndex, guild),
                                         g.group, note, clock))

\* /steamgroups remove
GroupsRemove(guild, input) ==
    /\ nOps < MaxOps
    /\ nOps' = nOps + 1
    /\ UNCHANGED <<importResult, tasks>>
    /\ \E r \in {removeGroupByKey(groups, trim(input))} :
        LeaveGroups(changed(enterGroups(lastIndex, guild), r,
                            [op |-> "removeGroupByKey", key |-> trim(input),
                             result |-> r.result, pre |-> groups],
                            stringifyGroups(r.list)))

\* /steamgroups clear
GroupsClear(guild) ==
    /\ nOps < MaxOps
    /\ nOps' = nOps + 1
    /\ UNCHANGED <<importResult, tasks>>
    /\ \E r \in {clearGroups(groups)} :
        LeaveGroups(changed(enterGroups(lastIndex, guild), r,
                            [op |-> "clearGroups", pre |-> groups],
                            stringifyGroups(r.list)))

\* /steamgroups import with a text
GroupsImport(guild, text, note) ==
    /\ nOps < MaxOps
    /\ nOps' = nOps + 1
    /\ UNCHANGED tasks
    /\ \E ex \in {extractGroupCandidatesFromText(text, lastIndex)} :
        IF ex.candidates = << >>
        THEN /\ LeaveGroups(enterGroups(ex.lastIndex, guild))
             /\ UNCHANGED importResult
        ELSE \E st \in {importManyGroups(enterGroups(ex.lastIndex, guild),
                                         capped(ex.candidates), note, clock)} :
                /\ LeaveGroups(st)
                /\ importResult' =
                       importReturn("importManyGroups", st.counts,
                                    Len(capped(ex.candidates)), Len(ex.candidates))

\* /steampermalink state:on|off
Toggle(guild, enabled) ==
    /\ nOps < MaxOps
    /\ nOps' = nOps + 1
    /\ \E r \in {setPermalinkEnabled(guildSettings, guild, enabled)} :
        /\ guildSettings' = r.settings
        /\ \E ok \in BOOLEAN :
            /\ disk' = [disk EXCEPT !.settings =
                           writeFile(@, stringifySettings(r.settings), ok)]
            /\ writeStatus' = [writeStatus EXCEPT !.settings =
                                  IF ok THEN "ok" ELSE "failed"]
    /\ last' = [op |-> "setPermalinkEnabled", guild |-> guild,
                enabled |-> enabled, pre |-> guildSettings]
    /\ UNCHANGED <<clock, nTicks, lastIndex, profiles, groups, insertedAt,
                   importResult, tasks, messageVars>>

\* ------------------------------------------------------- message handling
\* A variant of cleanupRepliedMessages: no entry is deleted.
cleanupDeletesNothing(replied, now) == replied

\* for (const [msgId, ts] of repliedMessageIds)
\*     if (now - ts > MESSAGE_REPLY_TTL_MS) repliedMessageIds.delete(msgId)
cleanupRepliedMessages(replied, now) ==
    [id \in {i \in DOMAIN replied : ~(now - replied[i] > MESSAGE_REPLY_TTL_MS)} |->
        replied[id]]

\* lastReplyAtByUser.get(author) ?? 0
lastReplyAt(byUser, author) == IF author \in DOMAIN byUser THEN byUser[author] ELSE 0

\* message.guildId of a message outside a guild.
NoGuild == "#none"

\* The five matchAll calls of handleMessage on the text content, the
\* patterns' cursors being li, and the cursors set to 0 after them.
scanContent(content, li) ==
    [vanityMatches |-> matchAll(content, STEAM_VANITY_ID_REGEX, li["STEAM_VANITY_ID_REGEX"]),
     userMatches |-> matchAll(content, STEAM_USER_REGEX, li["STEAM_USER_REGEX"]),
     profileMatches |-> matchAll(content, STEAM_PROFILE_REGEX, li["STEAM_PROFILE_REGEX"]),
     groupsMatches |-> matchAll(content, STEAM_GROUPS_REGEX, li["STEAM_GROUPS_REGEX"]),
     gidMatches |-> matchAll(content, STEAM_GID_REGEX, li["STEAM_GID_REGEX"]),
     lastIndex |-> [r \in RegexNames |-> 0]]
scanMessage(raw, li) == scanContent(stripCodeBlocks(raw), li)

\* Whether the five lists of matches are all empty.
noMatches(m) ==
    /\ m.vanityMatches = << >> /\ m.userMatches = << >>
    /\ m.profileMatches = << >> /\ m.groupsMatches = << >>
    /\ m.gidMatches = << >>

\* What one invocation of handleMessage holds between its matchAll calls and
\* its message.reply: the links pushed so far, the matches its loops have
\* yet to go through, and the cursors it leaves in the patterns.
scanned(m) ==
    [lastIndex |-> m.lastIndex, profilePermalinks |-> << >>, groupLinks |-> << >>,
     urls |-> m.vanityMatches \o m.userMatches, gidMatches |-> m.gidMatches,
     groupsMatches |-> m.groupsMatches, waiting |-> FALSE, url |-> << >>]

\* if (x) links.push(prefix + x), for the links named field; the call that
\* returned x left the cursor cursor in the pattern named regex.
pushed(run, field, prefix, x, regex, cursor) ==
    IF falsy(x)
    THEN [run EXCEPT !.lastIndex[regex] = cursor]
    ELSE [run EXCEPT !.lastIndex[regex] = cursor, ![field] = Append(@, prefix \o x)]
pushedGroup(run, prefix, r, regex) ==
    pushed(run, "groupLinks", prefix, r.value, regex, r.lastIndex)
\* if (id64) profilePermalinks.push(`https://steamcommunity.com/profiles/${id64}`)
pushProfile(run, id64) ==
    IF falsy(id64) THEN run
    ELSE [run EXCEPT !.profilePermalinks = Append(@, UrlProfiles \o id64)]
pushedProfile(run, r) ==
    pushed(run, "profilePermalinks", UrlProfiles, r.value, "STEAM_PROFILE_REGEX",
           r.lastIndex)

\* for (const url of profileMatches) ... extractFirstGroup(url, STEAM_PROFILE_REGEX)
RECURSIVE profileLoop(_, _)
profileLoop(run, urls) ==
    IF urls = << >> THEN run
    ELSE profileLoop(pushedProfile(run, extractFirstGroup(Head(urls), STEAM_PROFILE_REGEX)),
                     Tail(urls))

\* for (const url of [...vanityMatches, ...userMatches]) from its next url
\* on, as far as it runs without being suspended: to the end of the list, or
\* to the first url for which resolveToSteamId64 calls api.resolve.
RECURSIVE vanityLoop(_, _)
vanityStep(run, r, rest) ==
    IF r.call
    THEN [run EXCEPT !.lastIndex = r.lastIndex, !.urls = rest,
                     !.waiting = TRUE, !.url = r.url]
    ELSE vanityLoop(pushProfile([run EXCEPT !.lastIndex = r.lastIndex], r.value), rest)
vanityLoop(run, urls) ==
    IF urls = << >> THEN [run EXCEPT !.urls = << >>, !.waiting = FALSE]
    ELSE vanityStep(run, resolveToSteamId64(Head(urls), run.lastIndex), Tail(urls))

\* for (const u of gidMatches) ... extractFirstGroup(u, STEAM_GID_REGEX)
RECURSIVE gidLoop(_, _)
gidLoop(run, urls) ==
    IF urls = << >> THEN run
    ELSE gidLoop(pushedGroup(run, UrlGid, extractFirstGroup(Head(urls), STEAM_GID_REGEX),
                             "STEAM_GID_REGEX"),
                 Tail(urls))

\* for (const u of groupsMatches) ... extractFirstGroup(u, STEAM_GROUPS_REGEX)
RECURSIVE groupsLoop(_, _)
groupsLoop(run, urls) ==
    IF urls = << >> THEN run
    ELSE groupsLoop(pushedGroup(run, UrlGroups,
                                extractFirstGroup(Head(urls), STEAM_GROUPS_REGEX),
                                "STEAM_GROUPS_REGEX"),
                    Tail(urls))

\* An invocation that has returned: how it ended.
finished(event, now, outcome) ==
    [pc |-> "done", event |-> event, now |-> now, outcome |-> outcome]

\* handleMessage from uniqueStable on: it returns for want of any link, or
\* calls message.reply.  enabled is the guild's flag as it is then.
replyWith(event, now, uniqueProfiles, uniqueGroups, enabled, li) ==
    IF uniqueProfiles = << >> /\ uniqueGroups = << >>
    THEN [handler |-> finished(event, now, "nothing resolved"), lastIndex |-> li]
    ELSE [handler |-> [pc |-> "replying", event |-> event, now |-> now,
                       uniqueProfiles |-> uniqueProfiles,
                       uniqueGroups |-> uniqueGroups,
                       enabledAtCall |-> enabled],
          lastIndex |-> li]
linked(event, now, run, enabled) ==
    replyWith(event, now, uniqueStable(run.profilePermalinks),
              uniqueStable(run.groupLinks), enabled, run.lastIndex)

\* handleMessage from the end of its loop over the vanity links on: either it
\* is suspended in that loop, or it goes through the group links.
proceed(event, now, run, enabled) ==
    IF run.waiting
    THEN [handler |-> [pc |-> "resolving", event |-> event, now |-> now,
                       url |-> run.url, urls |-> run.urls,
                       profilePermalinks |-> run.profilePermalinks,
                       gidMatches |-> run.gidMatches,
                       groupsMatches |-> run.groupsMatches],
          lastIndex |-> run.lastIndex]
    ELSE linked(event, now,
                groupsLoop(gidLoop(run, run.gidMatches), run.groupsMatches), enabled)

\* The guards of handleMessage that read nothing but the message and the
\* guild's flag: how the invocation ends at them, "" when it passes them.
earlyReturn(event, settings) ==
    IF event.content = << >> THEN "no content"
    ELSE IF event.bot THEN "bot"
    ELSE IF event.guildId = NoGuild THEN "no guild"
    ELSE IF ~isPermalinkEnabled(settings, event.guildId) THEN "disabled"
    ELSE ""

\* The guards that read the two maps, cleaned being repliedMessageIds after
\* cleanupRepliedMessages.
suppressed(event, now, cleaned, byUser) ==
    IF event.id \in DOMAIN cleaned THEN "replied before"
    ELSE IF now - lastReplyAt(byUser, event.author) < USER_COOLDOWN_MS THEN "cooldown"
    ELSE ""

freeHandler ==
    CHOOSE h \in Handlers :
        handlers[h] = Idle /\ \A g \in Handlers : handlers[g] = Idle => h <= g

\* The invocation h goes on as next says.
Continue(h, next) ==
    /\ handlers' = [handlers EXCEPT ![h] = next.handler]
    /\ lastIndex' = next.lastIndex

\* handleMessage from its matchAll calls on, m being what they matched.
Scanned(event, m) ==
    IF noMatches(m)
    THEN /\ handlers' = [handlers EXCEPT ![freeHandler] = finished(event, clock, "no match")]
         /\ lastIndex' = m.lastIndex
    ELSE \E next \in {proceed(event, clock,
                              vanityLoop(profileLoop(scanned(m), m.profileMatches),
                                         m.vanityMatches \o m.userMatches),
                              isPermalinkEnabled(guildSettings, event.guildId))} :
            Continue(freeHandler, next)

\* handleMessage past the guards on the message and the flag.
Guarded(event, how) ==
    IF how # ""
    THEN /\ handlers' = [handlers EXCEPT ![freeHandler] = finished(event, clock, how)]
         /\ UNCHANGED lastIndex
    ELSE \E m \in {scanMessage(event.content, lastIndex)} : Scanned(event, m)

\* A MessageCreate or MessageUpdate event: handleMessage(message, fromEdit)
\* to its return or to its first await that suspends it.
HandleMessage(event) ==
    /\ \E h \in Handlers : handlers[h] = Idle
    /\ UNCHANGED <<clock, nTicks, storeVars, lastReplyAtByUser, replies>>
    /\ IF earlyReturn(event, guildSettings) # ""
       THEN /\ handlers' = [handlers EXCEPT ![freeHandler] =
                               finished(event, clock, earlyReturn(event, guildSettings))]
            /\ UNCHANGED <<repliedMessageIds, lastIndex>>
       ELSE /\ repliedMessageIds' = cleanupRepliedMessages(repliedMessageIds, clock)
            /\ Guarded(event,
                       suppressed(event, clock,
                                  cleanupRepliedMessages(repliedMessageIds, clock),
                                  lastReplyAtByUser))

\* api.resolve answers the invocation h suspended in resolveToSteamId64,
\* which goes on to its return, to its next await of api.resolve or to its
\* call of message.reply.
resumed(hd, li) ==
    [lastIndex |-> li, profilePermalinks |-> hd.profilePermalinks,
     groupLinks |-> << >>, urls |-> hd.urls, gidMatches |-> hd.gidMatches,
     groupsMatches |-> hd.groupsMatches, waiting |-> FALSE, url |-> << >>]
VanityResolved(h, answer) ==
    /\ handlers[h].pc = "resolving"
    /\ UNCHANGED <<clock, nTicks, storeVars, lastReplyAtByUser, repliedMessageIds, replies>>
    /\ \E next \in {proceed(handlers[h].event, handlers[h].now,
                            vanityLoop(pushProfile(resumed(handlers[h], lastIndex),
                                                   resolved(answer)),
                                       handlers[h].urls),
                            isPermalinkEnabled(guildSettings, handlers[h].event.guildId))} :
        Continue(h, next)

\* The reply message.reply of the invocation h, which holds hd, delivers at
\* time sentAt.
reply(hd, h, sentAt) ==
    [handler |-> h, id |-> hd.event.id, author |-> hd.event.author, guildId |-> hd.event.guildId,
     now |-> hd.now, fromEdit |-> hd.event.fromEdit,
     uniqueProfiles |-> hd.uniqueProfiles, uniqueGroups |-> hd.uniqueGroups,
     enabledAtCall |-> hd.enabledAtCall, sentAt |-> sentAt]

\* A variant of ReplyDone: the two maps are set before message.reply is
\* awaited, so that a throw leaves them set.
ReplyDoneMapsSetFirst(h, ok) ==
    /\ handlers[h].pc = "replying"
    /\ UNCHANGED <<clock, nTicks, lastIndex, storeVars>>
    /\ repliedMessageIds' = put(repliedMessageIds, handlers[h].event.id, handlers[h].now)
    /\ lastReplyAtByUser' = put(lastReplyAtByUser, handlers[h].event.author, handlers[h].now)
    /\ replies' = IF ok THEN Append(replies, reply(handlers[h], h, clock)) ELSE replies
    /\ handlers' = [handlers EXCEPT ![h] =
                       finished(handlers[h].event, handlers[h].now,
                                IF ok THEN "replied" ELSE "reply failed")]

\* A variant of ReplyDone: the time of the attempt is recorded for the author
\* whether or not message.reply throws.
ReplyDoneCountsAttempt(h, ok) ==
    /\ handlers[h].pc = "replying"
    /\ UNCHANGED <<clock, nTicks, lastIndex, storeVars>>
    /\ lastReplyAtByUser' = put(lastReplyAtByUser, handlers[h].event.author, handlers[h].now)
    /\ IF ok
       THEN /\ replies' = Append(replies, reply(handlers[h], h, clock))
            /\ repliedMessageIds' = put(repliedMessageIds, handlers[h].event.id, handlers[h].now)
            /\ handlers' = [handlers EXCEPT ![h] =
                               finished(handlers[h].event, handlers[h].now, "replied")]
       ELSE /\ handlers' = [handlers EXCEPT ![h] =
                               finished(handlers[h].event, handlers[h].now, "reply failed")]
            /\ UNCHANGED <<replies, repliedMessageIds>>

\* message.reply of the invocation h returns, or throws into the silent catch.
ReplyDone(h, ok) ==
    /\ handlers[h].pc = "replying"
    /\ UNCHANGED <<clock, nTicks, lastIndex, storeVars>>
    /\ IF ok
       THEN /\ replies' = Append(replies, reply(handlers[h], h, clock))
            /\ repliedMessageIds' = put(repliedMessageIds, handlers[h].event.id, handlers[h].now)
            /\ lastReplyAtByUser' = put(lastReplyAtByUser, handlers[h].event.author, handlers[h].now)
            /\ handlers' = [handlers EXCEPT ![h] =
                               finished(handlers[h].event, handlers[h].now, "replied")]
       ELSE /\ handlers' = [handlers EXCEPT ![h] =
                               finished(handlers[h].event, handlers[h].now, "reply failed")]
            /\ UNCHANGED <<replies, repliedMessageIds, lastReplyAtByUser>>

\* ------------------------------------------------ the stores' specification
\* The commands the users send: an input and a note for each add, a key for
\* each remove, a text and a note for each import.
ProfileAdds ==
    ({SteamIdA} \X Notes)
        \cup {<<AngleSpaced, Undefined>>, <<ProfileUrlA, NoteA>>,
              <<VanityUrl, NoteB>>, <<Digits14, Undefined>>}
ProfileRemovals == {SteamIdA, <<" ">> \o SteamIdB, <<"7">>}
ProfileImports == {ProfilesText1, ProfilesText2} \X {Undefined, NoteA}
GroupAdds ==
    ({GroupUrl} \X Notes)
        \cup {<<GroupUrlLower, NoteB>>, <<GidUrl, Undefined>>,
              <<GidUrlLong, NoteA>>, <<NoLink, Undefined>>}
GroupRemovals == {GroupsKey \o <<"v", "a", "l", "v", "e">>, GidKey \o Gid18}
GroupImports == {GroupsText1} \X {Undefined, NoteA}

\* The commands, and the answers of api.resolve.
Command(guild) ==
    \/ \E c \in ProfileAdds : ProfilesAdd(guild, c[1], c[2])
    \/ \E input \in ProfileRemovals : ProfilesRemove(guild, input)
    \/ ProfilesClear(guild)
    \/ \E c \in ProfileImports : ProfilesImport(guild, c[1], c[2])
    \/ \E c \in GroupAdds : GroupsAdd(guild, c[1], c[2])
    \/ \E input \in GroupRemovals : GroupsRemove(guild, input)
    \/ GroupsClear(guild)
    \/ \E c \in GroupImports : GroupsImport(guild, c[1], c[2])
Answer ==
    \E t \in Tasks, answer \in ResolverAnswers :
        \/ ProfilesAddResolved(t, answer)
        \/ ProfilesImportResolved(t, answer)

Next ==
    \/ Tick(1)
    \/ Command("g1")
    \/ Answer
    \/ \E enabled \in BOOLEAN : Toggle("g1", enabled)

Spec == Init /\ [][Next]_vars

\* ------------------------------------------- the messages' specification
\* "check out https://steamcommunity.com/profiles/76561198000000000"
MsgProfile ==
    <<"c", "h", "e", "c", "k", " ", "o", "u", "t", " ">> \o UrlProfiles \o SteamIdA
\* "https://steamcommunity.com/id/Gabe"
MsgVanity == LitHttps \o VanityUrl
\* "https://steamcommunity.com/groups/Valve steamcommunity.com/gid/103582794444444444"
MsgGroups == GroupUrl \o <<" ">> \o GidUrl

Message(id, author, bot, guildId, content, fromEdit) ==
    [id |-> id, author |-> author, bot |-> bot, guildId |-> guildId,
     content |-> content, fromEdit |-> fromEdit]

\* The events the gateway delivers: a message and its edit, a second message
\* of the same author and its edit, messages of another author and in another
\* guild, and the three messages handleMessage ignores.
MessageEvents ==
    {Message("m1", "u1", FALSE, "g1", MsgProfile, FALSE),
     Message("m1", "u1", FALSE, "g1", MsgProfile, TRUE),
     Message("m2", "u1", FALSE, "g1", MsgVanity, FALSE),
     Message("m2", "u1", FALSE, "g1", MsgVanity, TRUE),
     Message("m3", "u2", FALSE, "g2", MsgProfile, FALSE),
     Message("m4", "u2", FALSE, "g1", MsgGroups, FALSE),
     Message("m5", "u3", TRUE, "g1", MsgProfile, FALSE),
     Message("m6", "u2", FALSE, NoGuild, MsgProfile, FALSE),
     Message("m7", "u2", FALSE, "g1", << >>, FALSE)}

\* What api.resolve may answer to a call made for a message.
MessageAnswers == {[ok |-> TRUE, value |-> SteamIdB], [ok |-> FALSE]}

\* The events so far (commands, messages and advances of the clock) leave
\* room for another.
MoreEvents ==
    nOps + nTicks + Cardinality({h \in Handlers : handlers[h] # Idle}) < MaxEvents
\* The gateway delivers MessageCreate once for a message, and MessageUpdate
\* whenever the message is edited.
Deliverable(event) ==
    IF event.fromEdit THEN TRUE
    ELSE \A h \in {g \in Handlers : handlers[g] # Idle} :
            handlers[h].event.id # event.id
\* No writeFileSync has failed.
DiskWorks == \A f \in DOMAIN writeStatus : writeStatus[f] # "failed"

NextMsg ==
    \/ MoreEvents /\ \E d \in {1, USER_COOLDOWN_MS, MESSAGE_REPLY_TTL_MS + 1} : Tick(d)
    \/ MoreEvents /\ \E event \in MessageEvents :
                        Deliverable(event) /\ HandleMessage(event)
    \/ \E h \in Handlers, answer \in MessageAnswers : VanityResolved(h, answer)
    \/ \E h \in Handlers, ok \in BOOLEAN : ReplyDone(h, ok)
    \/ /\ MoreEvents
       /\ \E guild \in Guilds, enabled \in BOOLEAN : Toggle(guild, enabled)
       /\ DiskWorks'
    \/ /\ MoreEvents
       /\ ProfilesAdd("g1", SteamIdA, Undefined)
       /\ DiskWorks'

SpecMsg == Init /\ [][NextMsg]_vars

\* ---------------------------------------------------------------- start-up
\* The files as the process finds them.  A file is NoFile, Unparsable (its
\* text is no JSON) or [parsed |-> v], v being what JSON.parse returns: JsNull
\* for null, [array |-> items] for an array, [string |-> s] for a string and
\* the record of its properties for any other object.
Unparsable == [unparsable |-> TRUE]
JsNull == [null |-> TRUE]
isArray(v) == "array" \in DOMAIN v
\* parsed.profiles, parsed.groups
property(v, name) == IF name \in DOMAIN v THEN v[name] ELSE JsNull

\* loadSettings
loadSettings(file) ==
    IF file = NoFile THEN << >>
    ELSE IF file = Unparsable THEN << >>
    ELSE file.parsed

\* loadProfiles and loadGroups: the array the collection starts as.
loadList(file, name) ==
    IF file = NoFile THEN << >>
    ELSE IF file = Unparsable THEN << >>
    ELSE IF file.parsed = JsNull \/ ~isArray(property(file.parsed, name)) THEN << >>
    ELSE file.parsed[name].array
loadProfiles(file) == loadList(file, "profiles")
loadGroups(file) == loadList(file, "groups")

\* The files the process may start with.
StoredA == [steamid64 |-> SteamIdA, note |-> NoteB, addedAt |-> StartTime - 1]
StoredG ==
    [key |-> GidKey \o Gid18, url |-> UrlGid \o Gid18, gid64 |-> Gid18,
     name |-> Undefined, note |-> Undefined, addedAt |-> StartTime - 1]
StartSettings ==
    {NoFile, Unparsable, [parsed |-> JsNull],
     [parsed |-> [g1 |-> [enabled |-> FALSE]]]}
StartProfiles ==
    {NoFile, Unparsable, [parsed |-> JsNull],
     [parsed |-> [profiles |-> [string |-> "x"]]],
     [parsed |-> [profiles |-> [array |-> <<JsNull>>]]],
     [parsed |-> [profiles |-> [array |-> <<StoredA>>]]]}
StartGroups ==
    {NoFile, Unparsable,
     [parsed |-> [array |-> << >>]],
     [parsed |-> [groups |-> [array |-> <<JsNull, StoredG>>]]],
     [parsed |-> [groups |-> [array |-> <<StoredG>>]]]}

\* The state after the three load calls.
InitLoad ==
    /\ clock = StartTime
    /\ nTicks = 0
    /\ lastIndex = [r \in RegexNames |-> 0]
    /\ disk \in [settings : StartSettings, profiles : StartProfiles, groups : StartGroups]
    /\ guildSettings = loadSettings(disk.settings)
    /\ profiles = loadProfiles(disk.profiles)
    /\ groups = loadGroups(disk.groups)
    /\ writeStatus = [settings |-> "none", profiles |-> "none", groups |-> "none"]
    /\ insertedAt = [profiles |-> << >>, groups |-> << >>]
    /\ last = [op |-> "none"]
    /\ importResult = [op |-> "none"]
    /\ nOps = 0
    /\ tasks = [t \in Tasks |-> Idle]
    /\ lastReplyAtByUser = << >>
    /\ repliedMessageIds = << >>
    /\ handlers = [h \in Handlers |-> Idle]
    /\ replies = << >>

\* list.findIndex((p) => p[field] === key) throws: it comes to an element
\* that is null before it comes to one with the key.
isNull(v) == "null" \in DOMAIN v
firstNull(list) == firstOf({i \in 1..Len(list) : isNull(list[i])})
keyBefore(list, field, key, n) ==
    \E i \in 1..(n - 1) : list[i][field] = key
findIndexThrows(list, field, key) ==
    /\ firstNull(list) > 0
    /\ ~keyBefore(list, field, key, firstNull(list))

\* A command handler throws in the store operation named op.  Neither the
\* handler nor the InteractionCreate listener that awaits it has a catch, so
\* the rejection leaves the listener; the handler's interaction.reply, which
\* comes after the operation, is not reached, and nothing else has happened.
Throws(op) ==
    /\ nOps < MaxOps
    /\ nOps' = nOps + 1
    /\ last' = [op |-> "threw", in |-> op, caught |-> FALSE, replied |-> FALSE]
    /\ UNCHANGED <<clock, nTicks, lastIndex, guildSettings, profiles, groups, disk,
                   writeStatus, insertedAt, importResult, tasks, messageVars>>

\* /steampermalink state:on|off after start-up: guildSettings[guildId] = ...
\* throws when guildSettings is null.
LoadedToggle(guild, enabled) ==
    IF isNull(guildSettings) THEN Throws("setPermalinkEnabled")
    ELSE Toggle(guild, enabled)

\* /steamprofiles add with a SteamID64 after start-up.
LoadedProfilesAdd(guild, id64) ==
    IF findIndexThrows(profiles, "steamid64", id64) THEN Throws("upsertProfile")
    ELSE ProfilesAdd(guild, id64, Undefined)

\* /steamgroups add with a gid link after start-up.
LoadedGroupsAdd(guild, input, key) ==
    IF findIndexThrows(groups, "key", key) THEN Throws("upsertGroup")
    ELSE GroupsAdd(guild, input, Undefined)

\* A message event after start-up: isPermalinkEnabled throws when
\* guildSettings is null, into the catch of handleMessage.
LoadedMessage(event) ==
    IF ~isNull(guildSettings) \/ event.content = << >> \/ event.bot
          \/ event.guildId = NoGuild
    THEN HandleMessage(event)
    ELSE /\ \E h \in Handlers : handlers[h] = Idle
         /\ handlers' = [handlers EXCEPT ![freeHandler] = finished(event, clock, "threw")]
         /\ UNCHANGED <<clock, nTicks, lastIndex, storeVars, lastReplyAtByUser,
                        repliedMessageIds, replies>>

NextLoad ==
    \/ \E enabled \in BOOLEAN : LoadedToggle("g1", enabled)
    \/ \E id64 \in {SteamIdA, SteamIdB} : LoadedProfilesAdd("g1", id64)
    \/ \E gid \in {Gid18, Rep("3", 15)} :
           LoadedGroupsAdd("g1", LitHost \o LitGid \o gid, GidKey \o gid)
    \/ \E event \in {Message("m1", "u1", FALSE, "g1", MsgProfile, FALSE),
                     Message("m7", "u2", FALSE, "g1", << >>, FALSE)} :
           LoadedMessage(event)
    \/ \E h \in Handlers, ok \in BOOLEAN : ReplyDone(h, ok)

SpecLoad == InitLoad /\ [][NextLoad]_vars

\* ------------------------------------------- the imports' specification
\* importManyProfiles and importManyGroups called with lists of candidates
\* up to and beyond MAX_IMPORT_ITEMS.  Of three consecutive candidates the
\* third is none; the lists of the profiles of VanitySizes candidates have a
\* vanity link in every even place, for which api.resolve is called.
MaxCandidates == 301
VanitySizes == {4}
ImportSizes == {0, 1, 2, 3, MAX_IMPORT_ITEMS, MaxCandidates}
profileCandidate(i) ==
    IF i % 3 = 0 THEN NoLink ELSE IF i % 3 = 1 THEN SteamIdA ELSE SteamIdB
groupCandidate(i) ==
    IF i % 3 = 0 THEN NoLink ELSE IF i % 3 = 1 THEN GidUrl ELSE GroupUrl
profileCandidatesOf(n) ==
    [i \in 1..n |-> IF n \in VanitySizes /\ i % 2 = 0 THEN VanityUrl
                    ELSE profileCandidate(i)]
groupCandidatesOf(n) == [i \in 1..n |-> groupCandidate(i)]

\* importManyProfiles(candidates, note), to its return or to its first await
\* of api.resolve.
ImportProfiles(guild, candidates, note) ==
    /\ nOps < MaxOps
    /\ nOps' = nOps + 1
    /\ \E t \in Tasks : tasks[t] = Idle
    /\ \E st \in {importManyProfiles(enterProfiles(lastIndex, guild),
                                     capped(candidates), note, clock)} :
        LeaveImport(st, freeTask, note, guild, Len(capped(candidates)),
                    Len(candidates))

\* importManyGroups(candidates, note)
ImportGroups(guild, candidates, note) ==
    /\ nOps < MaxOps
    /\ nOps' = nOps + 1
    /\ UNCHANGED tasks
    /\ \E st \in {importManyGroups(enterGroups(lastIndex, guild),
                                   capped(candidates), note, clock)} :
        /\ LeaveGroups(st)
        /\ importResult' = importReturn("importManyGroups", st.counts,
                                        Len(capped(candidates)), Len(candidates))

NextImport ==
    \/ \E n \in ImportSizes \cup VanitySizes, note \in {Undefined, NoteA} :
           ImportProfiles("g1", profileCandidatesOf(n), note)
    \/ \E t \in Tasks, answer \in ResolverAnswers : ProfilesImportResolved(t, answer)
    \/ \E n \in ImportSizes, note \in {Undefined, NoteA} :
           ImportGroups("g1", groupCandidatesOf(n), note)
    \/ ProfilesClear("g1")

SpecImport == Init /\ [][NextImport]_vars

\* Every call of api.resolve returns: the promise that a suspended import
\* awaits is settled, with a value or with a rejection.
ResolverReturns == \E t \in Tasks, answer \in ResolverAnswers : ProfilesImportResolved(t, answer)

\* The imports of the short lists, every call of api.resolve returning:
\* ResolverReturns, which is enabled exactly while an import is suspended,
\* is weakly fair.
ShortSizes == {1, 2, 3} \cup VanitySizes
NextShortImport ==
    \/ \E n \in ShortSizes, note \in {Undefined, NoteA} :
           ImportProfiles("g1", profileCandidatesOf(n), note)
    \/ ResolverReturns
    \/ ProfilesClear("g1")
    \/ \E d \in {1} : Tick(d)
ResolverFair ==
    \/ []<>(\A t \in Tasks : tasks[t].pc # "import")
    \/ []<><<ResolverReturns>>_vars
SpecImportFair == Init /\ [][NextShortImport]_vars /\ ResolverFair

\* The imports of the short lists beside the other commands on the
\* profiles, which the gateway delivers while an import is suspended.
NextConcurrent ==
    \/ \E n \in ShortSizes : ImportProfiles("g1", profileCandidatesOf(n), Undefined)
    \/ ResolverReturns
    \/ ProfilesClear("g1")
    \/ \E input \in {AngleSpaced, SteamIdB} : ProfilesAdd("g1", input, NoteA) /\ DiskWorks'
    \/ \E input \in {SteamIdA, <<"7">>} : ProfilesRemove("g1", input)

SpecConcurrent == Init /\ [][NextConcurrent]_vars

\* ------------------------------------------ the resolver's specification
\* The inputs of resolveToSteamId64 that are digits, bare or between spaces
\* and angle brackets: none, one, one too few, the least number, seventeen,
\* the greatest number and one too many.
DigitLengths == {0, 1, MinIdDigits - 1, MinIdDigits, 17, MaxIdDigits, MaxIdDigits + 1}
Wrappings == {"bare", "spaces", "brackets", "spaces and brackets", "<", ">"}
wrapped(how, d) ==
    CASE how = "bare" -> d
      [] how = "spaces" -> <<" ">> \o d \o <<" ", " ">>
      [] how = "brackets" -> <<"<">> \o d \o <<">">>
      [] how = "spaces and brackets" -> <<" ", "<">> \o d \o <<">", " ">>
      [] how = "<" -> <<"<">> \o d
      [] how = ">" -> d \o <<">">>
DigitInputs == {wrapped(how, Rep("7", n)) : how \in Wrappings, n \in DigitLengths}
\* "steamcommunity.com/user/Gabe"
UserUrl == LitHost \o LitUser \o <<"G", "a", "b", "e">>
ResolveInputs == DigitInputs \cup {VanityUrl, UserUrl, ProfileUrlA, NoLink}
ResolveGroupInputs == {GidUrl, GroupUrl, GroupUrlLower, NoLink}
ResolveEvents ==
    {Message("m2", "u1", FALSE, "g1", MsgVanity, FALSE),
     Message("m4", "u2", FALSE, "g1", MsgGroups, FALSE),
     Message("m8", "u2", FALSE, "g1",
             MsgVanity \o <<" ">> \o UserUrl \o <<" ">> \o MsgGroups, FALSE)}

\* Every caller of resolveToSteamId64, and every operation on the groups.
NextResolve ==
    \/ /\ MoreEvents
       /\ \E input \in ResolveInputs : ProfilesAdd("g1", input, Undefined)
       /\ DiskWorks'
    \/ \E t \in Tasks, answer \in ResolverAnswers :
           ProfilesAddResolved(t, answer) /\ DiskWorks'
    \/ /\ MoreEvents
       /\ \E n \in VanitySizes : ImportProfiles("g1", profileCandidatesOf(n), Undefined)
       /\ DiskWorks'
    \/ \E t \in Tasks, answer \in ResolverAnswers :
           ProfilesImportResolved(t, answer) /\ DiskWorks'
    \/ /\ MoreEvents
       /\ \E input \in ResolveGroupInputs : GroupsAdd("g1", input, Undefined)
       /\ DiskWorks'
    \/ /\ MoreEvents
       /\ \E n \in {3} : ImportGroups("g1", groupCandidatesOf(n), Undefined)
       /\ DiskWorks'
    \/ MoreEvents /\ \E event \in ResolveEvents :
                        Deliverable(event) /\ HandleMessage(event)
    \/ \E h \in Handlers, answer \in MessageAnswers : VanityResolved(h, answer)
    \/ \E h \in Handlers, ok \in BOOLEAN : ReplyDone(h, ok)

SpecResolve == Init /\ [][NextResolve]_vars

\* -------------------------------------------- the replies' specification
\* "https://www.steamcommunity.com/profiles/76561198000000000"
WwwProfileA == LitHttps \o LitWww \o LitHost \o LitProfiles \o SteamIdA
\* Messages that name one identity several times: a link to a profile, a
\* vanity link and the same profile in another form, and a group twice; a
\* vanity link and a user link; a group and a gid.
MsgRepeated ==
    MsgProfile \o <<" ">> \o MsgVanity \o <<" ">> \o WwwProfileA
        \o <<" ">> \o GroupUrl \o <<" ">> \o GroupUrl
ReplyEvents ==
    {Message("m9", "u1", FALSE, "g1", MsgRepeated, FALSE),
     Message("m10", "u2", FALSE, "g1", MsgVanity \o <<" ">> \o UserUrl, FALSE),
     Message("m4", "u3", FALSE, "g1", MsgGroups, FALSE)}
ReplyAnswers ==
    {[ok |-> TRUE, value |-> SteamIdA], [ok |-> TRUE, value |-> SteamIdB], [ok |-> FALSE]}

NextReply ==
    \/ MoreEvents /\ \E event \in ReplyEvents : Deliverable(event) /\ HandleMessage(event)
    \/ \E h \in Handlers, answer \in ReplyAnswers : VanityResolved(h, answer)
    \/ \E h \in Handlers, ok \in BOOLEAN : ReplyDone(h, ok)
    \/ MoreEvents /\ Tick(USER_COOLDOWN_MS)

SpecReply == Init /\ [][NextReply]_vars

\* ---------------------------------------------------- the list commands
LIST_PAGE_SIZE == 10
mathMax(a, b) == IF a >= b THEN a ELSE b
mathMin(a, b) == IF a <= b THEN a ELSE b
\* Math.ceil(a / b) for a >= 0 and b > 0
ceilOf(a, b) == (a + b - 1) \div b
\* Math.max(1, Math.ceil(list.length / LIST_PAGE_SIZE))
totalPages(n) == mathMax(1, ceilOf(n, LIST_PAGE_SIZE))
\* interaction.options.getInteger('page', false) ?? 1
NoPage == [given |-> FALSE]
Page(n) == [given |-> TRUE, value |-> n]
requestedOf(option) == IF option.given THEN option.value ELSE 1

\* A variant of pageOf: the page is not held to the number of pages.
pageOfAnyNumber(requested, total) == mathMax(requested, 1)

\* Math.min(Math.max(requested, 1), totalPages)
pageOf(requested, total) == mathMin(mathMax(requested, 1), total)
\* list.slice(start, end) for 0 <= start
slice(list, start, end) == SubSeq(list, start + 1, mathMin(end, Len(list)))
\* What a list command shows of list: the page, the number of pages, the
\* records of the page and the number its first line bears.
listPage(kind, list, requested) ==
    IF Len(list) = 0 THEN [op |-> kind, empty |-> TRUE]
    ELSE [op |-> kind, empty |-> FALSE,
          page |-> pageOf(requested, totalPages(Len(list))),
          totalPages |-> totalPages(Len(list)),
          total |-> Len(list),
          first |-> (pageOf(requested, totalPages(Len(list))) - 1) * LIST_PAGE_SIZE + 1,
          shown |-> slice(list,
                          (pageOf(requested, totalPages(Len(list))) - 1) * LIST_PAGE_SIZE,
                          (pageOf(requested, totalPages(Len(list))) - 1) * LIST_PAGE_SIZE
                              + LIST_PAGE_SIZE)]

\* /steamprofiles list and /steamgroups list: they change nothing.
Listed(shown) ==
    /\ nOps < MaxOps
    /\ nOps' = nOps + 1
    /\ last' = shown
    /\ UNCHANGED <<clock, nTicks, lastIndex, guildSettings, profiles, groups, disk,
                   writeStatus, insertedAt, importResult, tasks, messageVars>>
ProfilesList(option) == Listed(listPage("listProfiles", profiles, requestedOf(option)))
GroupsList(option) == Listed(listPage("listGroups", groups, requestedOf(option)))

\* The process starts with files of up to MaxListed records each, the i-th
\* with the i-th id.
MaxListed == 21
ListSizes == {0, 1, 9, 10, 11, 20, MaxListed}
Digit(n) == <<"0", "1", "2", "3", "4", "5", "6", "7", "8", "9">>[n + 1]
idOf(i) == Rep("1", 15) \o <<Digit(i \div 10), Digit(i % 10)>>
listedProfile(i) == [steamid64 |-> idOf(i), note |-> Undefined, addedAt |-> StartTime - 1]
listedGroup(i) == gidGroup(idOf(i), Undefined, StartTime - 1)
listedProfiles(n) == [i \in 1..n |-> listedProfile(i)]
listedGroups(n) == [i \in 1..n |-> listedGroup(i)]
InitList ==
    /\ clock = StartTime
    /\ nTicks = 0
    /\ lastIndex = [r \in RegexNames |-> 0]
    /\ \E n \in ListSizes :
        disk = [settings |-> NoFile,
                profiles |-> [parsed |-> [profiles |-> [array |-> listedProfiles(n)]]],
                groups |-> [parsed |-> [groups |-> [array |-> listedGroups(n)]]]]
    /\ guildSettings = loadSettings(disk.settings)
    /\ profiles = loadProfiles(disk.profiles)
    /\ groups = loadGroups(disk.groups)
    /\ writeStatus = [settings |-> "none", profiles |-> "none", groups |-> "none"]
    /\ insertedAt = [profiles |-> << >>, groups |-> << >>]
    /\ last = [op |-> "none"]
    /\ importResult = [op |-> "none"]
    /\ nOps = 0
    /\ tasks = [t \in Tasks |-> Idle]
    /\ lastReplyAtByUser = << >>
    /\ repliedMessageIds = << >>
    /\ handlers = [h \in Handlers |-> Idle]
    /\ replies = << >>

\* The pages a user may ask for, and the adds that update a stored record
\* or store a new one.
PageOptions == {NoPage} \cup {Page(n) : n \in -1..4}
NextList ==
    \/ \E option \in PageOptions : ProfilesList(option)
    \/ \E option \in PageOptions : GroupsList(option)
    \/ /\ \E i \in {1, 10, MaxListed + 1} : ProfilesAdd("g1", idOf(i), NoteA)
       /\ DiskWorks'
    \/ /\ \E i \in {1, 10, MaxListed + 1} :
             GroupsAdd("g1", LitHost \o LitGid \o idOf(i), NoteA)
       /\ DiskWorks'

SpecList == InitList /\ [][NextList]_vars

\* ------------------------------------------------ attachment downloads
MAX_IMPORT_BYTES == 300000
TooLarge == "File too large for import."

\* A variant of received: the chunk that exceeds the cap is kept as well.
receivedUnchecked(fetch, length, maxBytes) ==
    [fetch EXCEPT !.size = @ + length, !.chunks = Append(@, length),
                  !.destroyed = fetch.size + length > maxBytes]

\* res.on('data') of fetchTextFromUrl for a chunk of length bytes: a chunk
\* is its length, the attachments of the model being line feeds throughout.
received(fetch, length, maxBytes) ==
    IF fetch.size + length > maxBytes
    THEN [fetch EXCEPT !.size = @ + length, !.destroyed = TRUE]
    ELSE [fetch EXCEPT !.size = @ + length, !.chunks = Append(@, length)]
\* Buffer.concat(chunks).length
RECURSIVE concatLength(_)
concatLength(chunks) ==
    IF chunks = << >> THEN 0 ELSE Head(chunks) + concatLength(Tail(chunks))

\* /steamprofiles import and /steamgroups import with an attachment, to the
\* await of fetchTextFromUrl(attachment.url).
MaxChunks == 3
FetchStart(kind, guild, text, note) ==
    /\ nOps < MaxOps
    /\ nOps' = nOps + 1
    /\ \E t \in Tasks : tasks[t] = Idle
    /\ tasks' = [tasks EXCEPT ![freeTask] =
                    [pc |-> "fetching", kind |-> kind, guild |-> guild, text |-> text,
                     note |-> note, size |-> 0, chunks |-> << >>, destroyed |-> FALSE,
                     url |-> << >>]]
    /\ UNCHANGED <<clock, nTicks, lastIndex, guildSettings, profiles, groups, disk,
                   writeStatus, insertedAt, last, importResult, messageVars>>

\* A chunk of length bytes arrives.  req.destroy leaves the response without
\* its 'data' listener, so that none arrives after it.
FetchData(t, length) ==
    /\ tasks[t].pc = "fetching"
    /\ ~tasks[t].destroyed
    /\ Len(tasks[t].chunks) < MaxChunks
    /\ tasks' = [tasks EXCEPT ![t] = received(@, length, MAX_IMPORT_BYTES)]
    /\ UNCHANGED <<clock, nTicks, lastIndex, guildSettings, profiles, groups, disk,
                   writeStatus, insertedAt, last, importResult, nOps, messageVars>>

\* req.on('error') after req.destroy: the promise rejects, and the handler's
\* catch answers with the error's message and returns.  An 'end' that the
\* response emits afterwards finds the promise settled.
FetchError(t) ==
    /\ tasks[t].pc = "fetching"
    /\ tasks[t].destroyed
    /\ tasks' = [tasks EXCEPT ![t] = Idle]
    /\ last' = [op |-> "importFailed", kind |-> tasks[t].kind, message |-> TooLarge,
                size |-> tasks[t].size, kept |-> concatLength(tasks[t].chunks)]
    /\ UNCHANGED <<clock, nTicks, lastIndex, guildSettings, profiles, groups, disk,
                   writeStatus, insertedAt, importResult, nOps, messageVars>>

\* res.on('end'): the promise resolves with the body, and the handler goes
\* on with text + '\n' + body; the line feeds of the body hold no candidate
\* and are left out of the text that is searched.
FetchEnd(t) ==
    /\ tasks[t].pc = "fetching"
    /\ ~tasks[t].destroyed
    /\ UNCHANGED nOps
    /\ IF tasks[t].kind = "profiles"
       THEN \E ex \in {extractSteamCandidatesFromText(tasks[t].text \o <<"\n">>, lastIndex)} :
               IF ex.candidates = << >>
               THEN /\ LeaveProfiles(enterProfiles(ex.lastIndex, tasks[t].guild))
                    /\ tasks' = [tasks EXCEPT ![t] = Idle]
                    /\ UNCHANGED importResult
               ELSE \E st \in {importManyProfiles(
                                   enterProfiles(ex.lastIndex, tasks[t].guild),
                                   capped(ex.candidates), tasks[t].note, clock)} :
                       LeaveImport(st, t, tasks[t].note, tasks[t].guild,
                                   Len(capped(ex.candidates)), Len(ex.candidates))
       ELSE \E ex \in {extractGroupCandidatesFromText(tasks[t].text \o <<"\n">>, lastIndex)} :
               /\ tasks' = [tasks EXCEPT ![t] = Idle]
               /\ IF ex.candidates = << >>
                  THEN /\ LeaveGroups(enterGroups(ex.lastIndex, tasks[t].guild))
                       /\ UNCHANGED importResult
                  ELSE \E st \in {importManyGroups(
                                      enterGroups(ex.lastIndex, tasks[t].guild),
                                      capped(ex.candidates), tasks[t].note, clock)} :
                          /\ LeaveGroups(st)
                          /\ importResult' =
                                 importReturn("importManyGroups", st.counts,
                                              Len(capped(ex.candidates)),
                                              Len(ex.candidates))

\* The imports with an attachment, and adds beside them.
ChunkLengths == {1, MAX_IMPORT_BYTES \div 2, MAX_IMPORT_BYTES}
NextFetch ==
    \/ \E kind \in {"profiles", "groups"}, text \in {<< >>, SteamIdB, GidUrl} :
           FetchStart(kind, "g1", text, Undefined)
    \/ \E t \in Tasks, length \in ChunkLengths : FetchData(t, length)
    \/ \E t \in Tasks : FetchError(t)
    \/ \E t \in Tasks : FetchEnd(t) /\ DiskWorks'
    \/ ProfilesAdd("g1", SteamIdA, Undefined) /\ DiskWorks'
    \/ GroupsAdd("g1", GroupUrl, Undefined) /\ DiskWorks'
    \/ Tick(1)

SpecFetch == Init /\ [][NextFetch]_vars

\* ============================================================== properties
\* ---------------------------------------------------------- message guards
distance(a, b) == IF a >= b THEN a - b ELSE b - a

\* C1: of two messages with distinct ids by the same author whose
\* invocations of handleMessage start less than USER_COOLDOWN_MS apart, at
\* most one is replied to, however the two invocations interleave.
C1_OneReplyWithinCooldown ==
    \A i \in DOMAIN replies : \A j \in DOMAIN replies :
        (/\ i < j
         /\ replies[i].id # replies[j].id
         /\ replies[i].author = replies[j].author)
            => distance(replies[i].now, replies[j].now) >= USER_COOLDOWN_MS

\* C2: once a reply is sent for a message id, no further reply is sent for a
\* create or edit event with that id within MESSAGE_REPLY_TTL_MS of the
\* timestamp recorded with the first reply.
C2_OneReplyPerMessageId ==
    \A i \in DOMAIN replies : \A j \in DOMAIN replies :
        (i < j /\ replies[i].id = replies[j].id)
            => replies[j].sentAt - replies[i].now > MESSAGE_REPLY_TTL_MS

\* The outcomes of an invocation that a guard of handleMessage ended.
GuardOutcomes ==
    {"no content", "bot", "no guild", "disabled", "replied before", "cooldown"}
\* The text holds one steamcommunity.com/profiles/<15-25 digits> link, and no
\* link of another kind.
oneProfileLink(m) ==
    /\ Len(m.profileMatches) = 1
    /\ m.vanityMatches = << >> /\ m.userMatches = << >>
    /\ m.groupsMatches = << >> /\ m.gidMatches = << >>
\* https://steamcommunity.com/profiles/<digits>, alone.
onePermalink(links) ==
    /\ Len(links) = 1
    /\ Len(links[1]) > Len(UrlProfiles)
    /\ SubSeq(links[1], 1, Len(UrlProfiles)) = UrlProfiles
    /\ isId64(SubSeq(links[1], Len(UrlProfiles) + 1, Len(links[1])))
repliesOf(h) == {i \in DOMAIN replies : replies[i].handler = h}
\* The invocation h, which has returned, replied once with one permalink and
\* left the message and its author in the two maps.
repliedOnce(h, hd) ==
    /\ hd.outcome = "replied"
    /\ Cardinality(repliesOf(h)) = 1
    /\ \A i \in repliesOf(h) :
        onePermalink(replies[i].uniqueProfiles) /\ replies[i].uniqueGroups = << >>
    /\ hd.event.author \in DOMAIN lastReplyAtByUser
    /\ \/ hd.event.id \in DOMAIN repliedMessageIds
       \/ clock - hd.now > MESSAGE_REPLY_TTL_MS

\* C3: a message that passes the guards of handleMessage and whose text holds
\* one /profiles/<15-25 digits> link gets one reply with one canonical
\* permalink, and its id and author are recorded, whatever was handled before.
C3_ProfileLinkReplied ==
    \A h \in Handlers :
        (/\ handlers[h].pc = "done"
         /\ handlers[h].outcome \notin GuardOutcomes \cup {"reply failed"}
         /\ oneProfileLink(scanMessage(handlers[h].event.content,
                                       [r \in RegexNames |-> 0])))
            => repliedOnce(h, handlers[h])

\* The latest operation is an upsert.
Upserts == {"upsertProfile", "upsertGroup"}
\* The collection the operation named op works on.
listOf(op) == IF op = "upsertProfile" THEN profiles ELSE groups
keyOf(op) == IF op = "upsertProfile" THEN "steamid64" ELSE "key"

\* C4: message.reply is never called for a message of a guild whose flag is
\* false; setPermalinkEnabled leaves the other guilds' flags as they were; an
\* upsert made while the flag is false changes the store as it does otherwise.
C4_NoReplyWhileDisabled ==
    /\ \A i \in DOMAIN replies : replies[i].enabledAtCall
    /\ last.op = "setPermalinkEnabled" =>
        \A g \in Guilds \ {last.guild} :
            isPermalinkEnabled(guildSettings, g) = isPermalinkEnabled(last.pre, g)
    /\ (last.op \in Upserts /\ ~last.enabled /\ last.result = "added") =>
        Len(listOf(last.op)) = Len(last.pre) + 1

\* ------------------------------------------------------------- the stores
\* What upsert is to return and to leave, pre being the collection before the
\* call and list after it, idx the place of the key in pre (0: none).
upsertResult(pre, idx, trimmed) ==
    IF idx = 0 THEN "added"
    ELSE IF falsy(trimmed) \/ pre[idx].note = trimmed THEN "exists"
    ELSE "updated"
upsertEffect(list, pre, idx, trimmed, field, key, now, result) ==
    /\ result = "added" =>
        /\ Len(list) = Len(pre) + 1
        /\ SubSeq(list, 1, Len(pre)) = pre
        /\ list[Len(list)][field] = key
        /\ list[Len(list)].note = orUndefined(trimmed)
        /\ list[Len(list)].addedAt = now
    /\ result = "exists" => list = pre
    /\ result = "updated" =>
        /\ Len(list) = Len(pre)
        /\ \A i \in 1..Len(pre) : i # idx => list[i] = pre[i]
        /\ list[idx] = [pre[idx] EXCEPT !.note = trimmed]
upsertContract(list, op, field) ==
    /\ op.result = upsertResult(op.pre, findIndex(op.pre, field, op.key), trimNote(op.note))
    /\ upsertEffect(list, op.pre, findIndex(op.pre, field, op.key), trimNote(op.note),
                    field, op.key, op.now, op.result)

\* C5: upsertProfile and upsertGroup return added, exists or updated as the
\* key is absent, present with an empty or equal trimmed note, or present
\* with another note; they append, change nothing, or replace the note alone,
\* and leave every other record as it was.
C5_UpsertContract ==
    last.op \in Upserts => upsertContract(listOf(last.op), last, keyOf(last.op))

C5_Witness ==
    /\ last.op \in Upserts
    /\ last.result = "updated"
    /\ Len(listOf(last.op)) >= 2

noDuplicates(list, field) ==
    \A i \in 1..Len(list) : \A j \in 1..Len(list) :
        list[i][field] = list[j][field] => i = j

\* C6: no two profiles have the same steamid64 and no two groups the same
\* key, after any adds, imports, removes and clears, however they interleave.
C6_UniqueKeys ==
    /\ noDuplicates(profiles, "steamid64")
    /\ noDuplicates(groups, "key")

C6_Witness ==
    /\ importResult.op = "importManyProfiles"
    /\ importResult.exists >= 1
    /\ importResult.added >= 1
    /\ Len(profiles) >= 2

\* upsert(id, "A"), upsert(id, "A"), upsert(id, "B") at the times t, t + 1
\* and t + 2 on a collection list that does not hold id.
IdNew == Rep("9", 16)
thirdUpsert(r, idx, t) ==
    /\ r.result = "updated"
    /\ r.list[idx].note = NoteB
    /\ r.list[idx].addedAt = t
secondUpsert(r, id, t) ==
    /\ r.result = "exists"
    /\ thirdUpsert(upsertProfile(r.list, id, NoteB, t + 2), Len(r.list), t)
firstUpsert(r, id, t) ==
    /\ r.result = "added"
    /\ secondUpsert(upsertProfile(r.list, id, <<"A">>, t + 1), id, t)
addedExistsUpdated(list, id, t) == firstUpsert(upsertProfile(list, id, <<"A">>, t), id, t)
keepsAddedAt(list, field, inserted) ==
    \A i \in 1..Len(list) :
        /\ list[i][field] \in DOMAIN inserted
        /\ list[i].addedAt = inserted[list[i][field]]

\* C7: a stored record's addedAt is the time of the upsert that inserted it,
\* whatever upserts came later; upsert(id, "A"), upsert(id, "A"),
\* upsert(id, "B") returns added, exists, updated and leaves note "B" with
\* the addedAt of the first call.
C7_AddedAtKept ==
    /\ keepsAddedAt(profiles, "steamid64", insertedAt.profiles)
    /\ keepsAddedAt(groups, "key", insertedAt.groups)
    /\ addedExistsUpdated(profiles, IdNew, clock)

C7_Witness ==
    /\ last.op = "upsertProfile"
    /\ last.result = "updated"
    /\ last.key \in DOMAIN insertedAt.profiles
    /\ last.now > insertedAt.profiles[last.key]

\* The second of two equal upserts returns exists, saves nothing and leaves
\* the collection as the first did.
sameAgain(r1, r2) == r2.result = "exists" /\ r2.list = r1.list /\ ~r2.saved
twiceFrom(r1, id, note, t) == sameAgain(r1, upsertProfile(r1.list, id, note, t + 1))
twice(list, id, note, t) == twiceFrom(upsertProfile(list, id, note, t), id, note, t)

\* C8: the same upsert made twice leaves the collection and the file as the
\* first call did, and the second call returns exists.
C8_UpsertIdempotent ==
    /\ (last.op \in Upserts /\ last.repeat) =>
        /\ last.result = "exists"
        /\ ~last.saved
        /\ listOf(last.op) = last.pre
    /\ \A id \in {SteamIdA, SteamIdB, IdNew} : \A note \in Notes :
        twice(profiles, id, note, clock)

C8_Witness ==
    /\ last.op = "upsertProfile"
    /\ last.repeat
    /\ last.note = NoteA
    /\ Len(profiles) >= 1

\* gid:<15-25 digits> or groups:<name over [a-z0-9_-]>
startsWith(s, prefix) ==
    Len(s) > Len(prefix) /\ SubSeq(s, 1, Len(prefix)) = prefix
rest(s, prefix) == SubSeq(s, Len(prefix) + 1, Len(s))
LowerIdChars == Range(LowerLetters) \cup Digits \cup {"_", "-"}
isGroupKey(k) ==
    \/ startsWith(k, GidKey) /\ isId64(rest(k, GidKey))
    \/ /\ startsWith(k, GroupsKey)
       /\ \A i \in Len(GroupsKey) + 1..Len(k) : k[i] \in LowerIdChars

\* C9: every stored steamid64 is 15 to 25 digits and every stored group key
\* is gid:<15-25 digits> or groups:<lower-case name>, whatever was passed to
\* add and import and whatever api.resolve answered.
C9_CanonicalKeys ==
    /\ \A i \in 1..Len(profiles) : isId64(profiles[i].steamid64)
    /\ \A i \in 1..Len(groups) : isGroupKey(groups[i].key)

\* The file agrees with what is in memory: never written and nothing in
\* memory, or holding the serialization of all of it.
agrees(file, status, content, isEmpty) ==
    /\ status = "none" => file = NoFile /\ isEmpty
    /\ status = "ok" => file = content

\* C10: as long as the latest write of a file did not fail, the file holds
\* the serialization of the whole collection in memory, at every point
\* between two operations.
C10_DiskAgrees ==
    /\ agrees(disk.profiles, writeStatus.profiles, stringifyProfiles(profiles),
              profiles = << >>)
    /\ agrees(disk.groups, writeStatus.groups, stringifyGroups(groups), groups = << >>)
    /\ agrees(disk.settings, writeStatus.settings, stringifySettings(guildSettings),
              guildSettings = << >>)

C10_Witness ==
    /\ writeStatus.profiles = "ok"
    /\ Len(profiles) >= 1
    /\ \E t \in Tasks : tasks[t].pc = "import"
    /\ last.op = "upsertProfile"

\* ---------------------------------------------------------- failed writes
\* What a store operation leaves in memory, as recorded in op, whether or
\* not its write reached the file.
removedFrom(list, op, field) ==
    /\ list = filterOut(op.pre, field, op.key)
    /\ op.result = (Len(list) # Len(op.pre))
keptInMemory(op, settings, profs, grps) ==
    /\ op.op = "setPermalinkEnabled" =>
        settings = put(op.pre, op.guild, [enabled |-> op.enabled])
    /\ op.op = "removeProfile" => removedFrom(profs, op, "steamid64")
    /\ op.op = "removeGroupByKey" => removedFrom(grps, op, "key")
    /\ op.op = "clearProfiles" => profs = << >>
    /\ op.op = "clearGroups" => grps = << >>
    /\ (op.op = "upsertProfile" /\ op.result = "added") =>
        findIndex(profs, "steamid64", op.key) > 0
    /\ (op.op = "upsertGroup" /\ op.result = "added") =>
        findIndex(grps, "key", op.key) > 0
\* The operations that call writeFileSync once.
WritesOnce(f) ==
    IF f = "settings" THEN {"setPermalinkEnabled"}
    ELSE IF f = "profiles" THEN {"removeProfile", "clearProfiles"}
    ELSE {"removeGroupByKey", "clearGroups"}
\* A file whose latest write failed: after an operation that writes once it
\* is as it was before the step, and after any step it does not hold what
\* the failed write was to put there unless it held it before.
keptOnDisk(op, status, before, after, content, once) ==
    status = "failed" =>
        /\ op.op \in once => after = before
        /\ after = before \/ after # content

\* C11: a failed write of a backing file leaves the operation's result and
\* the collection in memory as a successful write does, and leaves the file
\* with its previous content; nothing is written again for it.
C11_FailedWriteSwallowed ==
    [][/\ keptInMemory(last', guildSettings', profiles', groups')
       /\ keptOnDisk(last', writeStatus'.settings, disk.settings, disk'.settings,
                     stringifySettings(guildSettings'), WritesOnce("settings"))
       /\ keptOnDisk(last', writeStatus'.profiles, disk.profiles, disk'.profiles,
                     stringifyProfiles(profiles'), WritesOnce("profiles"))
       /\ keptOnDisk(last', writeStatus'.groups, disk.groups, disk'.groups,
                     stringifyGroups(groups'), WritesOnce("groups"))]_vars

C11_Witness ==
    /\ last.op = "removeProfile"
    /\ last.result
    /\ writeStatus.profiles = "failed"
    /\ disk.profiles # NoFile
    /\ disk.profiles # stringifyProfiles(profiles)

\* ----------------------------------------------------------------- start-up
\* The file holds a collection of the expected shape: an object whose
\* property name is an array of records with the field key.
expectedList(file, name, key) ==
    /\ file # NoFile /\ file # Unparsable
    /\ ~isNull(file.parsed)
    /\ isArray(property(file.parsed, name))
    /\ \A i \in 1..Len(file.parsed[name].array) :
        key \in DOMAIN file.parsed[name].array[i]
\* The file holds settings of the expected shape: an object of guild ids.
expectedSettings(file) ==
    /\ file # NoFile /\ file # Unparsable
    /\ ~isNull(file.parsed)
    /\ ~isArray(file.parsed)
\* No operation has run since start-up.
AtStartUp ==
    /\ nOps = 0
    /\ \A h \in Handlers : handlers[h] = Idle

\* C12: a file that is missing, unparsable or not of the expected shape
\* leaves the empty collection or the empty settings at start-up, and no
\* later operation throws because of what the file held.
C12_BadFileLoadsEmpty ==
    /\ (AtStartUp /\ ~expectedSettings(disk.settings)) => DOMAIN guildSettings = {}
    /\ (AtStartUp /\ ~expectedList(disk.profiles, "profiles", "steamid64")) =>
        Len(profiles) = 0
    /\ (AtStartUp /\ ~expectedList(disk.groups, "groups", "key")) => Len(groups) = 0
    /\ last.op # "threw"
    /\ \A h \in Handlers : handlers[h].pc = "done" => handlers[h].outcome # "threw"

\* ------------------------------------------------------------ the imports
min(a, b) == IF a <= b THEN a ELSE b
\* What an import's return says of a list of found candidates.
cappedCounts(r) ==
    /\ r.processed = min(r.found, MAX_IMPORT_ITEMS)
    /\ r.truncated = (r.found > MAX_IMPORT_ITEMS)
    /\ r.added + r.updated + r.exists + r.failed = r.processed
\* Of the generated lists without a vanity link every third candidate, and
\* no other, fails.
failedCounted(r) ==
    r.found \notin VanitySizes =>
        r.failed = Cardinality({i \in 1..r.processed : i % 3 = 0})
\* A step in which one import ran from its call to its return.
importedAtOnce ==
    /\ nOps' = nOps + 1
    /\ tasks' = tasks
    /\ last'.op # "clearProfiles"
grownBy(n) == (Len(profiles') - Len(profiles)) + (Len(groups') - Len(groups)) = n

\* C13: an import processes the first min(|C|, 300) candidates only:
\* processed is min(|C|, 300), found is |C|, truncated holds exactly if
\* |C| > 300, the four counters add up to processed, failed counts the
\* candidates that are no link, and added the records the collection grew by.
C13_ImportCounts ==
    [][importResult'.op # "none" =>
          /\ cappedCounts(importResult')
          /\ failedCounted(importResult')
          /\ importedAtOnce => grownBy(importResult'.added)]_vars
C13_Witness ==
    /\ importResult.op # "none"
    /\ importResult.truncated
    /\ importResult.found = MAX_IMPORT_ITEMS + 1
    /\ importResult.processed = MAX_IMPORT_ITEMS
    /\ importResult.added = 2
    /\ importResult.failed = 100

\* The import suspended as task t is at one place of its list: the items it
\* has counted, the one it awaits and the ones to come are the processed
\* ones, the ones to come being the end of the list in its order.
sumOf(counts) == counts.added + counts.updated + counts.exists + counts.failed
atItsPlace(task) ==
    /\ sumOf(task.counts) + 1 + Len(task.items) = task.processed
    /\ task.items = SubSeq(profileCandidatesOf(task.found),
                           task.processed - Len(task.items) + 1, task.processed)
\* api.resolve rejected, or resolved with nothing, for the import suspended
\* as task t: the item fails, no record comes of it, and the import goes on
\* to its next await, at its place, or to its return with every item counted.
runsOn(t) ==
    IF tasks'[t].pc = "import"
    THEN /\ atItsPlace(tasks'[t])
         /\ tasks'[t].counts.failed > tasks[t].counts.failed
         /\ Len(profiles') - Len(profiles) = tasks'[t].counts.added - tasks[t].counts.added
    ELSE /\ sumOf(importResult') = tasks[t].processed
         /\ importResult'.failed > tasks[t].counts.failed
         /\ Len(profiles') - Len(profiles) = importResult'.added - tasks[t].counts.added
\* The keys of the candidates of a generated list that are bare ids.
idsOf(n) == {profileCandidate(i) : i \in {j \in 1..n : j % 3 # 0}}
keysOf(list) == {list[i].steamid64 : i \in 1..Len(list)}
\* An import of found candidates without a vanity link, k distinct ids that
\* are not stored and m that are none, ran from its call to its return.
mixedImport(found) ==
    /\ importedAtOnce
    /\ importResult'.op = "importManyProfiles"
    /\ importResult'.found = found
    /\ idsOf(found) \cap keysOf(profiles) = {}
addsTheIds(r, k, m) ==
    /\ r.added = k /\ r.failed = m /\ r.processed = k + m
    /\ r.updated = 0 /\ r.exists = 0

\* C14: an import goes through its capped list in order whatever fails: a
\* suspended import is at its place in the list, an item the resolver fails
\* for is counted as failed and the import runs on; an import of k distinct
\* bare ids that are not stored and m items that are no link returns
\* added = k, failed = m, processed = k + m and leaves the previous records
\* followed by records of exactly the k ids; and, every resolver call
\* returning, a suspended import returns.
C14_ImportRunsOn ==
    /\ [](\A t \in Tasks : tasks[t].pc = "import" => atItsPlace(tasks[t]))
    /\ [][\A t \in Tasks :
            ProfilesImportResolved(t, [ok |-> FALSE]) => runsOn(t)]_vars
    /\ [][\A found \in {1, 2, 3} :
            mixedImport(found) =>
                /\ addsTheIds(importResult', Cardinality(idsOf(found)),
                              found - Cardinality(idsOf(found)))
                /\ SubSeq(profiles', 1, Len(profiles)) = profiles
                /\ Len(profiles') = Len(profiles) + Cardinality(idsOf(found))
                /\ keysOf(profiles') = keysOf(profiles) \cup idsOf(found)]_vars
    /\ \A t \in Tasks : (tasks[t].pc = "import") ~> (tasks[t] = Idle)
\* An import returned three failures after two awaits of the resolver.
C14_Witness ==
    /\ importResult.op = "importManyProfiles"
    /\ importResult.found = 4
    /\ importResult.failed = 3
    /\ importResult.added = 1
    /\ importResult.processed = 4
    /\ keysOf(profiles) = {SteamIdA}
    /\ \A t \in Tasks : tasks[t] = Idle

\* ------------------------------------------------------------ the resolver
\* /steamprofiles add of an input that is the digits d between spaces and
\* brackets: api.resolve is not called, and d is the key of the upsert if
\* its length is 15 to 25; otherwise the input resolves to nothing.
digitsResolved(d) ==
    /\ tasks' = tasks
    /\ IF Len(d) >= 15 /\ Len(d) <= 25
       THEN /\ last'.op = "upsertProfile"
            /\ last'.key = d
            /\ d \in keysOf(profiles')
       ELSE /\ last'.op = "unresolved"
            /\ profiles' = profiles

\* C15: for an input that is digits only once it is trimmed and rid of one
\* leading '<' and one trailing '>', resolveToSteamId64 returns the digits
\* unchanged if they are 15 to 25, and null if they are fewer or more; it
\* does not call the external resolver.
C15_DigitsResolveToThemselves ==
    [][\A n \in DigitLengths :
          \A how \in Wrappings :
              ProfilesAdd("g1", wrapped(how, Rep("7", n)), Undefined)
                  => digitsResolved(Rep("7", n))]_vars
\* Twenty-five digits between brackets were stored, twenty-six were not.
C15_Witness ==
    /\ nOps = 2
    /\ last.op = "unresolved"
    /\ keysOf(profiles) = {Rep("7", MaxIdDigits)}
    /\ \A t \in Tasks : tasks[t] = Idle

\* Whether resolveToSteamId64 may call api.resolve for input: the input has
\* an /id/ or a /user/ link.
looksLikeVanity(input) ==
    includes(toLowerCase(input), LitHost \o LitId)
        \/ includes(toLowerCase(input), LitHost \o LitUser)
\* Every input a caller hands to resolveToSteamId64.
InputsOfCallers ==
    ResolveInputs \cup {MsgVanity, UserUrl} \cup {profileCandidate(i) : i \in 1..3}
\* api.resolve threw for the /steamprofiles add suspended as task t: the
\* command ends, nothing being stored.
addGivesUp(t) ==
    /\ tasks'[t] = Idle
    /\ last'.op = "unresolved"
    /\ profiles' = profiles
\* It threw for the import suspended as task t: the item is counted as
\* failed, no record is added for it, and the import awaits a later item, if
\* any.
importGivesUp(t) ==
    IF tasks'[t].pc = "import"
    THEN /\ Len(tasks'[t].items) < Len(tasks[t].items)
         /\ tasks'[t].counts.failed >= tasks[t].counts.failed + 1
         /\ keysOf(profiles') \subseteq keysOf(profiles) \cup idsOf(tasks[t].found)
    ELSE /\ importResult'.failed >= tasks[t].counts.failed + 1
         /\ keysOf(profiles') \subseteq keysOf(profiles) \cup idsOf(tasks[t].found)
\* It threw for the invocation h of handleMessage: no permalink is pushed,
\* and the invocation awaits a later link, replies with the links it had, or
\* returns for want of any.
detectionGivesUp(h) ==
    CASE handlers'[h].pc = "resolving" ->
             /\ Len(handlers'[h].urls) < Len(handlers[h].urls)
             /\ handlers'[h].profilePermalinks = handlers[h].profilePermalinks
      [] handlers'[h].pc = "replying" ->
             handlers'[h].uniqueProfiles = uniqueStable(handlers[h].profilePermalinks)
      [] OTHER ->
             /\ handlers'[h].outcome = "nothing resolved"
             /\ handlers[h].profilePermalinks = << >>

\* C16: resolveToSteamId64 calls the external resolver only for an input
\* with an /id/ or /user/ link, and once: when the call fails the result is
\* null, and its caller (add, import, detection) goes on without calling
\* again for that candidate, which yields neither a record nor a permalink.
C16_ResolverFailureIsNull ==
    /\ [](\A input \in InputsOfCallers :
            resolveToSteamId64(input, lastIndex).call => looksLikeVanity(input))
    /\ [][\A t \in Tasks :
            /\ ProfilesAddResolved(t, [ok |-> FALSE]) => addGivesUp(t)
            /\ ProfilesImportResolved(t, [ok |-> FALSE]) => importGivesUp(t)]_vars
    /\ [][\A h \in Handlers :
            VanityResolved(h, [ok |-> FALSE]) => detectionGivesUp(h)]_vars
\* A message with nothing but a vanity link came to nothing, and so did an
\* add.
C16_Witness ==
    /\ \E h \in Handlers :
        /\ handlers[h].pc = "done"
        /\ handlers[h].outcome = "nothing resolved"
        /\ handlers[h].event.id = "m2"
    /\ last.op = "unresolved"
    /\ profiles = << >>
    /\ nOps = 1

\* -------------------------------------------------------------- the groups
\* A link to a group.
isGroupLink(url) ==
    includes(toLowerCase(url), LitHost \o LitGroups)
        \/ includes(toLowerCase(url), LitHost \o LitGid)
\* The urls api.resolve has been called with and has not answered yet.
pendingUrls ==
    {tasks[t].url : t \in {u \in Tasks : tasks[u] # Idle}}
        \cup {handlers[h].url : h \in {g \in Handlers : handlers[g].pc = "resolving"}}
\* The gid and the name the inputs of the group commands hold.
Valve == <<"V", "a", "l", "v", "e">>
gidIn(input) == IF input = GidUrl THEN Gid18 ELSE Undefined
nameIn(input) ==
    IF input = GroupUrl THEN Valve
    ELSE IF input = GroupUrlLower THEN toLowerCase(Valve)
    ELSE Undefined
keyIn(input) ==
    IF gidIn(input) # Undefined THEN GidKey \o gidIn(input)
    ELSE IF nameIn(input) # Undefined THEN GroupsKey \o toLowerCase(nameIn(input))
    ELSE << >>
urlIn(input) ==
    IF gidIn(input) # Undefined THEN UrlGid \o gidIn(input)
    ELSE UrlGroups \o nameIn(input)
groupKeys(list) == {list[i].key : i \in 1..Len(list)}
\* /steamgroups add of input: no call of api.resolve; a group that was not
\* stored is stored with the gid or the name of the input as they are.
groupAddedAsIs(input) ==
    /\ tasks' = tasks
    /\ IF keyIn(input) = << >> \/ keyIn(input) \in groupKeys(groups)
       THEN Len(groups') = Len(groups)
       ELSE /\ Len(groups') = Len(groups) + 1
            /\ groups'[Len(groups')].key = keyIn(input)
            /\ groups'[Len(groups')].gid64 = gidIn(input)
            /\ groups'[Len(groups')].name = nameIn(input)
            /\ groups'[Len(groups')].url = urlIn(input)
\* The import of the gid link, the link with the name and one that is none.
groupsImportedAsIs ==
    /\ tasks' = tasks
    /\ groupKeys(groups') = groupKeys(groups) \cup {keyIn(GidUrl), keyIn(GroupUrl)}
    /\ \A i \in 1..Len(groups') :
        \/ groups'[i].gid64 = Gid18 /\ groups'[i].url = urlIn(GidUrl)
        \/ groups'[i].name \in {Valve, toLowerCase(Valve)}
             /\ groups'[i].url = UrlGroups \o groups'[i].name
\* The links to groups handleMessage replies with are the links of the text.
groupLinksAsIs(links) ==
    \A i \in 1..Len(links) : links[i] \in {urlIn(GidUrl), urlIn(GroupUrl)}

\* C17: no operation on groups calls the external resolver: a group add, a
\* group import and the detection of /groups/ and /gid/ links take the gid
\* as it is and the name literally, the key being the name in lower case.
C17_GroupsNeverResolved ==
    /\ [](\A url \in pendingUrls : ~isGroupLink(url))
    /\ [](\A h \in Handlers :
            handlers[h].pc = "replying" => groupLinksAsIs(handlers[h].uniqueGroups))
    /\ [][/\ \A input \in ResolveGroupInputs :
                GroupsAdd("g1", input, Undefined) => groupAddedAsIs(input)
          /\ ImportGroups("g1", groupCandidatesOf(3), Undefined) => groupsImportedAsIs
          /\ HandleMessage(Message("m4", "u2", FALSE, "g1", MsgGroups, FALSE))
                => \A h \in Handlers :
                       handlers'[h] # handlers[h] => handlers'[h].pc # "resolving"]_vars
\* Both groups are stored and both links are in a reply.
C17_Witness ==
    /\ groupKeys(groups) = {keyIn(GidUrl), keyIn(GroupUrl)}
    /\ \E i \in 1..Len(groups) : groups[i].name = Valve
    /\ \E h \in Handlers :
        /\ handlers[h].pc = "replying"
        /\ handlers[h].uniqueGroups = <<urlIn(GidUrl), urlIn(GroupUrl)>>

\* ------------------------------------------------------- throws in handlers
\* The invocation h has ended where it was, and no other invocation, reply,
\* map or cursor has changed.
endedSilently(h, outcome) ==
    /\ handlers' = [handlers EXCEPT ![h] =
                       finished(handlers[h].event, handlers[h].now, outcome)]
    /\ replies' = replies
    /\ repliedMessageIds' = repliedMessageIds
    /\ lastReplyAtByUser' = lastReplyAtByUser
    /\ lastIndex' = lastIndex
\* No reply of the invocation h has been delivered.
noReplyOf(h) == \A i \in 1..Len(replies) : replies[i].handler # h

C19_ThrowingCommandAnswered ==
    last.op = "threw" => last.caught /\ last.replied

\* --------------------------------------------------------------- removals
\* The places of pre whose record has another key than key, and the j-th of
\* them.
keptPlaces(pre, field, key) == {i \in 1..Len(pre) : pre[i][field] # key}
nthOf(places, j) == CHOOSE i \in places : Cardinality({k \in places : k < i}) = j - 1
\* What a removal of key from pre leaves and returns.
removalContract(pre, post, field, key, result) ==
    /\ result = (\E i \in 1..Len(pre) : pre[i][field] = key)
    /\ \A i \in 1..Len(post) : post[i][field] # key
    /\ Len(post) = Cardinality(keptPlaces(pre, field, key))
    /\ \A j \in 1..Len(post) : post[j] = pre[nthOf(keptPlaces(pre, field, key), j)]
    /\ ~result => post = pre

\* C20: removeProfile(k) and removeGroupByKey(k) return true exactly if a
\* record with key k was stored; afterwards none is, and the other records
\* are as they were, in their order; when k was not stored the collection is
\* unchanged and the result is false.
C20_RemovalContract ==
    [][/\ \A input \in ProfileRemovals :
            (ProfilesRemove("g1", input) /\ last'.op = "removeProfile") =>
                /\ last'.key = trim(input)
                /\ removalContract(profiles, profiles', "steamid64", trim(input),
                                   last'.result)
       /\ \A input \in GroupRemovals :
            GroupsRemove("g1", input) =>
                /\ last'.op = "removeGroupByKey"
                /\ last'.key = trim(input)
                /\ removalContract(groups, groups', "key", trim(input),
                                   last'.result)]_vars
\* One of two stored profiles was removed.
C20_Witness ==
    /\ last.op = "removeProfile"
    /\ last.result
    /\ Len(last.pre) >= 2
    /\ Len(profiles) = Len(last.pre) - 1
    /\ profiles # << >>

\* ------------------------------------------------------------------ paging
\* The page p a request for page r of n records is answered with, and the
\* places of the records it shows.
clampedPage(r, n) ==
    IF r < 1 THEN 1
    ELSE IF r * LIST_PAGE_SIZE >= n + LIST_PAGE_SIZE
         THEN (n + LIST_PAGE_SIZE - 1) \div LIST_PAGE_SIZE
         ELSE r
firstPlace(p) == (p - 1) * LIST_PAGE_SIZE + 1
lastPlace(p, n) == IF p * LIST_PAGE_SIZE <= n THEN p * LIST_PAGE_SIZE ELSE n
\* The list command asked for page r showed, of list, the records at the
\* places of the page.
showsPage(shown, list, r) ==
    /\ ~shown.empty
    /\ shown.page = clampedPage(r, Len(list))
    /\ shown.first = firstPlace(shown.page)
    /\ Len(shown.shown) = lastPlace(shown.page, Len(list)) - firstPlace(shown.page) + 1
    /\ \A j \in 1..Len(shown.shown) : shown.shown[j] = list[firstPlace(shown.page) + j - 1]
\* The last page shows the records left over, or a full page.
lastPageFull(shown, n) ==
    shown.page = shown.totalPages =>
        Len(shown.shown) = IF n % LIST_PAGE_SIZE = 0 THEN LIST_PAGE_SIZE
                           ELSE n % LIST_PAGE_SIZE
\* An add leaves the stored records at their places.
placesKept(before, after, field) ==
    /\ Len(after) >= Len(before)
    /\ \A i \in 1..Len(before) : after[i][field] = before[i][field]

\* C21: of N >= 1 records, which stand in the order of their first
\* insertion, the list command asked for any page r shows the records at
\* the places (p-1)*10+1 .. min(p*10, N), p being r held to 1 .. ceil(N/10);
\* the last page shows the N mod 10 records left, or 10.
C21_ListShowsPage ==
    [][/\ \A option \in PageOptions :
            /\ (ProfilesList(option) /\ profiles # << >>) =>
                   /\ showsPage(last', profiles, requestedOf(option))
                   /\ lastPageFull(last', Len(profiles))
            /\ (GroupsList(option) /\ groups # << >>) =>
                   /\ showsPage(last', groups, requestedOf(option))
                   /\ lastPageFull(last', Len(groups))
       /\ placesKept(profiles, profiles', "steamid64")
       /\ placesKept(groups, groups', "key")]_vars
\* The third and last page of twenty-two records, asked for as page 4 after
\* a record was added, shows the last two.
C21_Witness ==
    /\ last.op = "listProfiles"
    /\ ~last.empty
    /\ last.total = MaxListed + 1
    /\ last.page = 3
    /\ last.first = 21
    /\ Len(last.shown) = 2
    /\ last.shown[2].steamid64 = idOf(MaxListed + 1)

\* ------------------------------------------------------ attachment downloads
\* The download of task t holds no more than the cap, is destroyed exactly
\* when the bytes received exceed it, and holds every chunk received until
\* then.
withinCap(t) ==
    tasks[t].pc = "fetching" =>
        /\ concatLength(tasks[t].chunks) <= MAX_IMPORT_BYTES
        /\ tasks[t].destroyed <=> tasks[t].size > MAX_IMPORT_BYTES
        /\ ~tasks[t].destroyed => concatLength(tasks[t].chunks) = tasks[t].size
\* The step answers the import with the failure of the size limit and
\* leaves the stored collections as they were.
failsUnchanged(t) ==
    /\ last'.op = "importFailed"
    /\ last'.message = TooLarge
    /\ tasks[t].size > MAX_IMPORT_BYTES
    /\ UNCHANGED <<profiles, groups, disk, importResult>>

\* C22: fetchTextFromUrl never holds more than maxBytes (300000) bytes; once
\* the chunks received exceed the cap the transfer is destroyed, the promise
\* rejects and does not resolve afterwards, and the import answers with the
\* failure of the size limit and leaves the collection unchanged; a body of
\* at most maxBytes bytes is returned complete.
C22_DownloadCapped ==
    /\ [](\A t \in Tasks : withinCap(t))
    /\ [][\A t \in Tasks :
             /\ FetchError(t) => failsUnchanged(t)
             /\ FetchEnd(t) => /\ ~tasks[t].destroyed
                               /\ concatLength(tasks[t].chunks) = tasks[t].size
             /\ (tasks[t].pc = "fetching" /\ tasks[t].destroyed)
                   => tasks'[t] = tasks[t] \/ FetchError(t)]_vars
C22_Witness ==
    /\ last.op = "importFailed"
    /\ last.size = MAX_IMPORT_BYTES + 1
    /\ last.kept = MAX_IMPORT_BYTES
    /\ profiles # << >>

\* ------------------------------------------------------ the patterns' cursors
\* The step is handleMessage for event, and reaches its matchAll calls.
scans(event) ==
    /\ HandleMessage(event)
    /\ earlyReturn(event, guildSettings) = ""
    /\ suppressed(event, clock, cleanupRepliedMessages(repliedMessageIds, clock),
                  lastReplyAtByUser) = ""
cursorsAtZero == \A r \in RegexNames : lastIndex[r] = 0

\* C23: at the start of every extraction pass over a text the cursor of each
\* of the five shared patterns is 0, so that what is found in a text depends
\* on that text only: here for the matchAll calls of handleMessage.
C23_PassesStartAtZero ==
    [][\A event \in MessageEvents :
          scans(event) =>
              /\ cursorsAtZero
              /\ scanMessage(event.content, lastIndex)
                    = scanMessage(event.content, [r \in RegexNames |-> 0])]_vars

\* ------------------------------------------------- interleaved store changes
\* new holds the records of old at their places, and possibly more.
extends(old, new) ==
    /\ Len(new) >= Len(old)
    /\ \A i \in 1..Len(old) : new[i].steamid64 = old[i].steamid64
\* new is old without the records of one key.
without(old, new) ==
    \E key \in keysOf(old) :
        new = SelectSeq(old, LAMBDA p : p.steamid64 # key)
\* The step changes the profiles as store operations applied to the
\* collection of the moment do: a clear, a removal, or upserts.
inSomeOrder ==
    \/ profiles' = << >>
    \/ without(profiles, profiles')
    \/ extends(profiles, profiles')
\* The import resumed as task t with answer keeps what it finds stored, a
\* record added meanwhile included, and stores beside it nothing but what it
\* upserts from here on: what a clear or a removal deleted stays deleted.
resumesOnCurrent(t, answer) ==
    /\ extends(profiles, profiles')
    /\ keysOf(profiles') \ keysOf(profiles)
          \subseteq {resolved(answer)} \cup Range(tasks[t].items)

\* C24: each store operation runs without suspension, so that under every
\* interleaving of commands and suspended imports the collection is what the
\* operations give one after the other: a record added while an import is
\* suspended is there when the import goes on, and a clear is undone by
\* nothing but the upserts after it.
C24_StoreOperationsInOrder ==
    [][/\ inSomeOrder
       /\ ProfilesClear("g1") => profiles' = << >>
       /\ \A t \in Tasks, answer \in ResolverAnswers :
             ProfilesImportResolved(t, answer) => resumesOnCurrent(t, answer)]_vars
\* An import has returned with more records added than are stored: the
\* collection was cleared while it was suspended, and holds what it upserted
\* afterwards.
C24_Witness ==
    /\ importResult.op = "importManyProfiles"
    /\ importResult.added > Len(profiles)
    /\ profiles # << >>
    /\ \A t \in Tasks : tasks[t] = Idle

\* ------------------------------------------------- the purge of replied ids
\* The step is handleMessage for event, and reaches cleanupRepliedMessages.
reachesCleanup(event) ==
    HandleMessage(event) /\ earlyReturn(event, guildSettings) = ""
tooOld(ts) == clock - ts > MESSAGE_REPLY_TTL_MS
\* After the step no entry is older than the TTL, and every entry that was
\* not is still there with its time.
purged ==
    /\ \A id \in DOMAIN repliedMessageIds' : ~tooOld(repliedMessageIds'[id])
    /\ \A id \in DOMAIN repliedMessageIds :
          ~tooOld(repliedMessageIds[id]) =>
              /\ id \in DOMAIN repliedMessageIds'
              /\ repliedMessageIds'[id] = repliedMessageIds[id]
\* An entry the step deletes was older than the TTL, and the step is one
\* that reaches cleanupRepliedMessages.
purgedOnlyThere ==
    \A id \in DOMAIN repliedMessageIds \ DOMAIN repliedMessageIds' :
        /\ tooOld(repliedMessageIds[id])
        /\ \E event \in MessageEvents : reachesCleanup(event)

\* C25: right after the guard check of a handleMessage invocation that
\* reaches cleanupRepliedMessages, repliedMessageIds holds no entry older
\* than MESSAGE_REPLY_TTL_MS; the purge deletes no entry whose age is at most
\* the TTL, happens at no other time, and deletes nothing from
\* lastReplyAtByUser.  C25_Witness is a message replied to again after its
\* entry was purged.
C25_PurgeByAge ==
    [][/\ \A event \in MessageEvents : reachesCleanup(event) => purged
       /\ purgedOnlyThere
       /\ DOMAIN lastReplyAtByUser \subseteq DOMAIN lastReplyAtByUser']_vars
C25_Witness ==
    /\ Len(replies) = 2
    /\ replies[1].id = replies[2].id
    /\ replies[2].now - replies[1].sentAt > MESSAGE_REPLY_TTL_MS
    /\ repliedMessageIds[replies[2].id] = replies[2].now

\* ------------------------------------------------------- the groups' tokens
\* The identifier token of the link with segment seg in s: the run of the
\* characters of cls after steamcommunity.com/<seg>, and whether the end of
\* the text or a delimiter follows it.
tokenStart(s, seg) ==
    indexOf(toLowerCase(s), LitHost \o seg, 1) + Len(LitHost) + Len(seg)
tokenFrom(s, p, cls) == SubSeq(s, p, p + runLen(s, p, cls) - 1)
tokenOf(s, seg, cls) == tokenFrom(s, tokenStart(s, seg), cls)
delimitedFrom(s, p, cls) ==
    p + runLen(s, p, cls) > Len(s) \/ s[p + runLen(s, p, cls)] \in Delimiters
delimited(s, seg, cls) == delimitedFrom(s, tokenStart(s, seg), cls)
\* The group g made from the input s holds the whole token of s.
wholeToken(s, g) ==
    IF g.gid64 # Undefined
    THEN /\ g.gid64 = tokenOf(s, LitGid, Digits)
         /\ Len(g.gid64) >= MinIdDigits /\ Len(g.gid64) <= MaxIdDigits
         /\ delimited(s, LitGid, Digits)
    ELSE /\ g.name = tokenOf(s, LitGroups, IdChars)
         /\ delimited(s, LitGroups, IdChars)
storesWholeToken(input, made) == made.ok => wholeToken(normalizeInput(input), made.group)

\* C26: for every input that the group commands accept, the identifier
\* stored is the whole identifier token of the input: an input whose gid has
\* more than 25 digits or fewer than 15, or whose name or gid is followed by
\* a character that is neither the end of the text nor a delimiter, is
\* rejected and never stored under a prefix of the token.
C26_WholeTokenStored ==
    [][\A c \in GroupAdds :
          GroupsAdd("g1", c[1], c[2]) =>
              storesWholeToken(c[1], makeGroupFromInput(c[1], c[2], clock, lastIndex))]_vars

\* -------------------------------------------------------------- the replies
\* The elements of seq at the places where they stand first.
firstSeenAt(seq) == {i \in 1..Len(seq) : \A j \in 1..(i - 1) : seq[j] # seq[i]}
RECURSIVE inOrder(_, _)
inOrder(seq, places) ==
    IF places = {} THEN << >>
    ELSE <<seq[firstOf(places)]>> \o inOrder(seq, places \ {firstOf(places)})
firstSeen(seq) == inOrder(seq, firstSeenAt(seq))
eachOnce(seq) == \A i, j \in 1..Len(seq) : i # j => seq[i] # seq[j]
\* The permalinks the invocation hd has pushed, and that of the answer.
permalinksWith(hd, answer) ==
    hd.profilePermalinks
        \o (IF answer.ok THEN <<UrlProfiles \o answer.value>> ELSE << >>)
\* The invocation h, resumed with the answer to its last link, lists the
\* permalinks once each in the order they were pushed in, or returns for
\* want of any link.
listsOnce(h, answer) ==
    IF handlers'[h].pc = "replying"
    THEN /\ handlers'[h].uniqueProfiles = firstSeen(permalinksWith(handlers[h], answer))
         /\ eachOnce(handlers'[h].uniqueGroups)
    ELSE /\ handlers'[h].outcome = "nothing resolved"
         /\ permalinksWith(handlers[h], answer) = << >>
         /\ handlers[h].gidMatches = << >> /\ handlers[h].groupsMatches = << >>

\* C27: an automatic reply lists each canonical profile permalink at most
\* once and each group link at most once, in first-seen order, also when the
\* message holds one identity several times or in several forms (a link to
\* the profile and a vanity link resolved to the same id); no reply is sent
\* when both lists are empty.
C27_ReplyListsOnce ==
    /\ [](\A i \in 1..Len(replies) :
             /\ eachOnce(replies[i].uniqueProfiles)
             /\ eachOnce(replies[i].uniqueGroups)
             /\ replies[i].uniqueProfiles # << >> \/ replies[i].uniqueGroups # << >>)
    /\ [][\A h \in Handlers, answer \in ReplyAnswers :
             (VanityResolved(h, answer) /\ handlers[h].urls = << >>)
                 => listsOnce(h, answer)]_vars
\* The reply to the message that names the profile three times, the vanity
\* link resolved to the id of the two other links.
C27_Witness ==
    \E i \in 1..Len(replies) :
        /\ replies[i].id = "m9"
        /\ replies[i].uniqueProfiles = <<UrlProfiles \o SteamIdA>>
        /\ replies[i].uniqueGroups = <<GroupUrl>>

\* ------------------------------------------------- group names and casing
ValveKey == GroupsKey \o toLowerCase(Valve)
\* The add with note of a name of the group stored at place i, in whatever
\* casing, pushes nothing and leaves the record its key, url and name.
sameGroup(i, note) ==
    /\ last'.op = "upsertGroup"
    /\ last'.result = IF falsy(trimNote(note)) \/ groups[i].note = trimNote(note)
                      THEN "exists" ELSE "updated"
    /\ Len(groups') = Len(groups)
    /\ groups'[i].key = ValveKey
    /\ groups'[i].url = groups[i].url
    /\ groups'[i].name = groups[i].name
    /\ {j \in 1..Len(groups') : groups'[j].key = ValveKey} = {i}

\* C28: two names of a group that differ in the case of their letters are one
\* stored group: after the add of groups/<Name>, the add of the name in other
\* casing returns exists (updated with a new note that is not empty), the
\* collection holds one record with the key groups:<name in lower case>, and
\* its url and name keep the casing of the first insertion.
C28_CaseFoldedGroups ==
    [][\A c \in GroupAdds :
          (/\ c[1] \in {GroupUrl, GroupUrlLower}
           /\ GroupsAdd("g1", c[1], c[2])
           /\ findIndex(groups, "key", ValveKey) # 0)
              => sameGroup(findIndex(groups, "key", ValveKey), c[2])]_vars
\* The group first added as groups/valve has got the note of the add of
\* groups/Valve, and has kept its casing.
C28_Witness ==
    /\ groups # << >>
    /\ groups[1].key = ValveKey
    /\ groups[1].name = toLowerCase(Valve)
    /\ groups[1].url = UrlGroups \o toLowerCase(Valve)
    /\ groups[1].note = <<"A">>
    /\ last.op = "upsertGroup" /\ last.result = "updated"

\* ------------------------------------------------- the writes of the two maps
\* The keys of f that g has not, or has with another value.
setIn(f, g) == {k \in DOMAIN f : k \notin DOMAIN g \/ g[k] # f[k]}
\* The step is the return of message.reply to the invocation h, which sets
\* the entries of its message and of its author to the time it read, and
\* returns.
setsByReply(h) ==
    /\ ReplyDone(h, TRUE)
    /\ handlers'[h].pc = "done"
    /\ setIn(repliedMessageIds', repliedMessageIds) \subseteq {handlers[h].event.id}
    /\ setIn(lastReplyAtByUser', lastReplyAtByUser) \subseteq {handlers[h].event.author}
    /\ repliedMessageIds'[handlers[h].event.id] = handlers[h].now
    /\ lastReplyAtByUser'[handlers[h].event.author] = handlers[h].now
\* The step leaves lastReplyAtByUser as it is, and repliedMessageIds but for
\* entries deleted.
setsNothing ==
    /\ lastReplyAtByUser' = lastReplyAtByUser
    /\ setIn(repliedMessageIds', repliedMessageIds) = {}

\* C29: repliedMessageIds and lastReplyAtByUser gain or change an entry only
\* as the last step of a handleMessage invocation whose message.reply
\* succeeded: an invocation that returns early, or whose message.reply
\* throws, leaves lastReplyAtByUser unchanged and repliedMessageIds unchanged
\* but for the purge.
C29_MapsSetByReplyOnly ==
    [][/\ setsNothing \/ \E h \in Handlers : setsByReply(h)
       /\ \A h \in Handlers : ReplyDone(h, FALSE) =>
             setsNothing /\ repliedMessageIds' = repliedMessageIds
       /\ \A event \in MessageEvents : HandleMessage(event) => setsNothing
       /\ \A h \in Handlers, answer \in MessageAnswers :
             VanityResolved(h, answer) =>
                 setsNothing /\ repliedMessageIds' = repliedMessageIds]_vars
\* One invocation's message.reply has thrown, and neither its message nor
\* its author has an entry; another's has returned, and both have.
C29_Witness ==
    /\ \E h \in Handlers :
          /\ handlers[h].pc = "done" /\ handlers[h].outcome = "reply failed"
          /\ handlers[h].event.id \notin DOMAIN repliedMessageIds
          /\ handlers[h].event.author \notin DOMAIN lastReplyAtByUser
    /\ \E h \in Handlers :
          /\ handlers[h].pc = "done" /\ handlers[h].outcome = "replied"
          /\ repliedMessageIds[handlers[h].event.id] = handlers[h].now
          /\ lastReplyAtByUser[handlers[h].event.author] = handlers[h].now

\* C30: for every user the time stored in lastReplyAtByUser never decreases:
\* each write stores a value that is at least the one stored before, under
\* every interleaving of the handlers.
C30_LastReplyNeverDecreases ==
    [][\A u \in DOMAIN lastReplyAtByUser :
          u \in DOMAIN lastReplyAtByUser'
              /\ lastReplyAtByUser'[u] >= lastReplyAtByUser[u]]_vars
====
